---------------------------- MODULE Spec2Model ----------------------------
(***************************************************************************)
(* KGCFP extraction-and-import pipeline.                                   *)
(*                                                                         *)
(*   SpecImport    backend/import_to_neo4j.py  (Neo4jImporter, main)       *)
(*   SpecExtract   extraction/src/extractor.py (EntityExtractor)           *)
(*   SpecAggregate extraction/src/extractor.py (BatchExtractor)            *)
(*   SpecChunk     extraction/src/parser.py    (TextParser.chunk_text)     *)
(*   SpecSegment   extraction/src/parser.py    (segment_by_headings)       *)
(*   SpecConstraints backend/import_to_neo4j.py (create_constraints)       *)
(***************************************************************************)
EXTENDS Integers, Sequences, FiniteSets, Bags, TLC

VARIABLES
    \* ---- graph store and import run (import_to_neo4j.py)
    nodes,          \* bag of [label, id, props]
    edges,          \* bag of [src, type, dst, props], src/dst = <<label, id>>
    constraints,    \* set of uniqueness constraint names
    ipc,            \* position of main(): idle, cleared, constrained, importing, reported
    nImported,      \* number of import_file calls of the current run
    lastNode,       \* history: <<label, id>> -> the last record imported for that node
    lastEdge,       \* history: <<src, type, dst>> -> the last record applied to that edge
    \* ---- one call of EntityExtractor.extract_from_text (extractor.py)
    xpc,            \* idle, calling, done (a result was returned), raised
    attempt,        \* attempt number of the retry decorator
    prompt_len,     \* length of the text put in the prompt
    source_file,    \* provenance label of the call
    calls,          \* history: the outcome of each llm.invoke, "ok" or "fail"
    error,          \* history: the exception the last llm.invoke raised, "" if none
    content,        \* response.content of the last llm.invoke that returned
    result,         \* the ExtractionResult returned to the caller
    \* ---- one call of BatchExtractor.process_file (extractor.py)
    apc,            \* idle, loop (in the loop over sections), done
    nSections,      \* number of sections of the file
    heading,        \* number of sections visited
    chunksLeft,     \* chunks of the current section still to extract
    nExtracted,     \* number of chunks extracted
    acc,            \* the all_* lists accumulated so far
    output,         \* the ExtractionResult returned by process_file
    sections,       \* history: [len, chunks] of each section visited
    invoked,        \* history: the calls of extract_from_text, in order
    \* ---- one call of TextParser.chunk_text (parser.py)
    cpc,            \* idle, loop (in the while loop), done (generator exhausted)
    text,           \* [len, newlines]: length and the positions of "\n"
    chunk_size,     \* parameter
    overlap,        \* parameter
    start,          \* local
    chunks,         \* the chunks yielded so far, each <<from, to>> = text[from:to]
    \* ---- one run of main(), one store operation at a time (import_to_neo4j.py)
    rpc,            \* idle, cleared, constrained, importing, reported, crashed
    plan,           \* json_files: the aggregate results of the run, in order
    fileIdx,        \* the file being imported (0 before the first)
    opIdx,          \* store operations of that file already run
    db,             \* the store [nodes, edges]
    stages,         \* history: the stages of the run, in order
    prior,          \* history: the plan and the store of the last crashed run
    \* ---- one call of BatchExtractor.process_directory and save_results
    dpc,            \* idle, loop (over the files), returned, saved
    results,        \* the per-document results
    combined,       \* the totals of combined_extraction.json
    \* ---- one derivation of a relationship type from a relation_type label
    npc,            \* idle, done
    relation_type,  \* rel.get("relation_type", "RELATED_TO")
    type_token,     \* rel_label
    \* ---- one document through process_file and import_file
    epc,            \* idle, extracted, imported
    body,           \* the text under the heading, [len, newlines]
    response,       \* what the completion service answers to every call
    n_calls,        \* calls of extract_from_text made
    aggregate,      \* the result of process_file
    graph,          \* the store after import_file
    \* ---- one call of TextParser.segment_by_headings (parser.py)
    gpc,            \* idle, loop (over the lines), done (generator exhausted)
    document,       \* lines: content.split("\n"), each line its characters
    lineNo,         \* lines visited
    current_heading,    \* local
    current_content,    \* local: the lines since the heading
    headingAt,      \* history: the line number of the heading line
    yielded,        \* the pairs yielded so far, [heading, body, at]
    \* ---- calls of Neo4jImporter.create_constraints (import_to_neo4j.py)
    kpc,            \* idle, loop (over the statements), returned, raised
    schema,         \* the uniqueness constraints of the store
    stmt,           \* statements of the list already run
    printed,        \* history: the exceptions caught and printed in this call
    nCalls          \* calls made on this store

importVars == <<nodes, edges, constraints, ipc, nImported, lastNode, lastEdge>>
extractVars == <<xpc, attempt, prompt_len, source_file, calls, error, content, result>>
aggregateVars == <<apc, nSections, heading, chunksLeft, nExtracted, acc, output,
                   sections, invoked>>
chunkVars == <<cpc, text, chunk_size, overlap, start, chunks>>
runVars == <<rpc, plan, fileIdx, opIdx, db, stages, prior>>
directoryVars == <<dpc, results, combined>>
normalizeVars == <<npc, relation_type, type_token>>
pipelineVars == <<epc, body, response, n_calls, aggregate, graph>>
segmentVars == <<gpc, document, lineNo, current_heading, current_content,
                 headingAt, yielded>>
constraintVars == <<kpc, schema, stmt, printed, nCalls>>
vars == <<importVars, extractVars, aggregateVars, chunkVars,
          runVars, directoryVars, normalizeVars, pipelineVars, segmentVars,
          constraintVars>>

\* What an action of one part leaves alone: the variables of the other parts.
notImport == <<extractVars, aggregateVars, chunkVars,
               runVars, directoryVars, normalizeVars, pipelineVars, segmentVars,
                constraintVars>>
notExtract == <<importVars, aggregateVars, chunkVars,
                runVars, directoryVars, normalizeVars, pipelineVars, segmentVars,
                 constraintVars>>
notAggregate == <<importVars, extractVars, chunkVars,
                  runVars, directoryVars, normalizeVars, pipelineVars, segmentVars,
                   constraintVars>>
notChunk == <<importVars, extractVars, aggregateVars,
              runVars, directoryVars, normalizeVars, pipelineVars, segmentVars,
               constraintVars>>
notRun == <<importVars, extractVars, aggregateVars, chunkVars,
            directoryVars, normalizeVars, pipelineVars, segmentVars,
             constraintVars>>
notDirectory == <<importVars, extractVars, aggregateVars, chunkVars,
                  runVars, normalizeVars, pipelineVars, segmentVars,
                   constraintVars>>
notNormalize == <<importVars, extractVars, aggregateVars, chunkVars,
                  runVars, directoryVars, pipelineVars, segmentVars,
                   constraintVars>>
notPipeline == <<importVars, extractVars, aggregateVars, chunkVars,
                 runVars, directoryVars, normalizeVars, segmentVars,
                  constraintVars>>
notConstraint == <<importVars, extractVars, aggregateVars, chunkVars,
                   runVars, directoryVars, normalizeVars, pipelineVars, segmentVars>>
notSegment == <<importVars, extractVars, aggregateVars, chunkVars,
                runVars, directoryVars, normalizeVars, pipelineVars,
                 constraintVars>>

(***************************************************************************)
(* Python values.  A value is [t, s]: t its type, s its content.           *)
(***************************************************************************)
None == [t |-> "none", s |-> ""]
Str(x) == [t |-> "str", s |-> x]
Dict(x) == [t |-> "dict", s |-> x]
List(x) == [t |-> "list", s |-> x]

\* Python truthiness of a value (None and empty str/dict/list are falsy).
Truthy(v) == v.t # "none" /\ v.s # ""

\* dict.get(key): None when the key is missing.
Get(d, k) == IF k \in DOMAIN d THEN d[k] ELSE None

\* dict.get(key, default)
GetDefault(d, k, default) == IF k \in DOMAIN d THEN d[k] ELSE default

\* json.dumps(value, ensure_ascii=False) of a dict or list: its JSON text.
json_dumps(v) == Str("json:" \o v.s)

serialize_prop(value) ==
    IF value.t = "none" THEN None
    ELSE IF value.t \in {"dict", "list"} THEN json_dumps(value)
    ELSE value

\* Left fold of Op over a sequence (a for loop over a list).
Fold(Op(_, _), init, seq) ==
    LET F[i \in 0..Len(seq)] == IF i = 0 THEN init ELSE Op(F[i - 1], seq[i])
    IN F[Len(seq)]


(***************************************************************************)
(* The graph store: Cypher MATCH / MERGE / SET on a store [nodes, edges].  *)
(***************************************************************************)
EmptyStore == [nodes |-> EmptyBag, edges |-> EmptyBag]

\* SET x.f = v for the listed properties; a property set to null reads null.
Overwrite(old, new) ==
    [f \in (DOMAIN old) \cup (DOMAIN new) |-> IF f \in DOMAIN new THEN new[f] ELSE old[f]]

\* MATCH (x:Label {id: $id}): a null parameter matches nothing.
Match(st, label, id) ==
    {n \in BagToSet(st.nodes) : n.label = label /\ id.t # "none" /\ n.id = id}

\* A mutant of merge_node: properties are written only when the node is created.
merge_node_on_create(st, label, id, props) ==
    IF Match(st, label, id) = {}
    THEN [st EXCEPT !.nodes = @ (+) SetToBag({[label |-> label, id |-> id, props |-> props]})]
    ELSE st

\* A mutant of merge_node: CREATE instead of MERGE.
merge_node_create(st, label, id, props) ==
    [st EXCEPT !.nodes = @ (+) SetToBag({[label |-> label, id |-> id, props |-> props]})]

\* MERGE (x:Label {id: $id}) SET x.f = $f, ...
merge_node(st, label, id, props) ==
    IF Match(st, label, id) = {}
    THEN [st EXCEPT !.nodes = @ (+) SetToBag({[label |-> label, id |-> id, props |-> props]})]
    ELSE LET set(n) == IF n.label = label /\ n.id = id
                       THEN [n EXCEPT !.props = Overwrite(@, props)]
                       ELSE n
         IN [st EXCEPT !.nodes = BagOfAll(set, @)]

\* A mutant of merge_edge: CREATE instead of MERGE.
merge_edge_create(st, srcLabel, srcId, type, dstLabel, dstId, props) ==
    IF Match(st, srcLabel, srcId) = {} \/ Match(st, dstLabel, dstId) = {}
    THEN st
    ELSE [st EXCEPT !.edges = @ (+) SetToBag({[src |-> <<srcLabel, srcId>>, type |-> type,
                                               dst |-> <<dstLabel, dstId>>, props |-> props]})]

\* A mutant of merge_edge: the endpoints are not matched first.
merge_edge_unmatched(st, srcLabel, srcId, type, dstLabel, dstId, props) ==
    LET src == <<srcLabel, srcId>>
        dst == <<dstLabel, dstId>>
        same(e) == e.src = src /\ e.type = type /\ e.dst = dst
    IN IF \E e \in BagToSet(st.edges) : same(e)
       THEN st
       ELSE [st EXCEPT !.edges = @ (+) SetToBag({[src |-> src, type |-> type,
                                                  dst |-> dst, props |-> props]})]

\* A mutant of merge_edge: properties are written only when the edge is created.
merge_edge_on_create(st, srcLabel, srcId, type, dstLabel, dstId, props) ==
    LET src == <<srcLabel, srcId>>
        dst == <<dstLabel, dstId>>
        same(e) == e.src = src /\ e.type = type /\ e.dst = dst
    IN IF Match(st, srcLabel, srcId) = {} \/ Match(st, dstLabel, dstId) = {}
       THEN st
       ELSE IF \E e \in BagToSet(st.edges) : same(e)
       THEN st
       ELSE [st EXCEPT !.edges = @ (+) SetToBag({[src |-> src, type |-> type,
                                                  dst |-> dst, props |-> props]})]

\* MATCH (a:SrcLabel {id: $src}) MATCH (b:DstLabel {id: $dst})
\* MERGE (a)-[r:TYPE]->(b) SET r.f = $f, ...
merge_edge(st, srcLabel, srcId, type, dstLabel, dstId, props) ==
    LET src == <<srcLabel, srcId>>
        dst == <<dstLabel, dstId>>
        same(e) == e.src = src /\ e.type = type /\ e.dst = dst
        set(e) == IF same(e) THEN [e EXCEPT !.props = Overwrite(@, props)] ELSE e
    IN IF Match(st, srcLabel, srcId) = {} \/ Match(st, dstLabel, dstId) = {}
       THEN st
       ELSE IF \E e \in BagToSet(st.edges) : same(e)
       THEN [st EXCEPT !.edges = BagOfAll(set, @)]
       ELSE [st EXCEPT !.edges = @ (+) SetToBag({[src |-> src, type |-> type,
                                                  dst |-> dst, props |-> props]})]

NoProps == [f \in {} |-> None]

\* A mutant of clear_database: nothing is deleted.
clear_database_noop(st) == st

\* A mutant of clear_database: the nodes are deleted, their edges are not.
clear_database_keep_edges(st) == [st EXCEPT !.nodes = EmptyBag]

\* MATCH (n) DETACH DELETE n
clear_database(st) == EmptyStore

ConstraintNames ==
    {"period_id_unique", "location_id_unique", "iconography_id_unique",
     "person_id_unique", "work_id_unique", "literature_id_unique"}

\* CREATE CONSTRAINT ... IF NOT EXISTS, for each of the six node labels.
create_constraints(cs) == cs \cup ConstraintNames

(***************************************************************************)
(* Relationship types.  A type is the sequence of its characters, so that  *)
(* a type derived from a relation_type label and a fixed type are one      *)
(* namespace, as in the store.                                             *)
(***************************************************************************)
WORKED_AT == <<"W", "O", "R", "K", "E", "D", "_", "A", "T">>
ACTIVE_IN == <<"A", "C", "T", "I", "V", "E", "_", "I", "N">>
CREATED == <<"C", "R", "E", "A", "T", "E", "D">>
DATED_TO == <<"D", "A", "T", "E", "D", "_", "T", "O">>
DEPICTS == <<"D", "E", "P", "I", "C", "T", "S">>
CRITIQUES == <<"C", "R", "I", "T", "I", "Q", "U", "E", "S">>
RECORDS == <<"R", "E", "C", "O", "R", "D", "S">>
WROTE == <<"W", "R", "O", "T", "E">>
RELATED_TO == <<"R", "E", "L", "A", "T", "E", "D", "_", "T", "O">>

LowerChars == <<"a", "b", "c", "d", "e", "f", "g", "h", "i", "j", "k", "l", "m",
                "n", "o", "p", "q", "r", "s", "t", "u", "v", "w", "x", "y", "z">>
UpperChars == <<"A", "B", "C", "D", "E", "F", "G", "H", "I", "J", "K", "L", "M",
                "N", "O", "P", "Q", "R", "S", "T", "U", "V", "W", "X", "Y", "Z">>

\* str.upper(), character by character
upper(str) ==
    [i \in 1..Len(str) |->
        IF \E k \in 1..Len(LowerChars) : LowerChars[k] = str[i]
        THEN UpperChars[CHOOSE k \in 1..Len(LowerChars) : LowerChars[k] = str[i]]
        ELSE str[i]]

\* str.replace(old, new) for a one-character old
replace(str, old, new) == [i \in 1..Len(str) |-> IF str[i] = old THEN new ELSE str[i]]

\* A mutant of rel_label: the slash is kept.
rel_label_keep_slash(rel_type) == replace(upper(rel_type), " ", "_")

\* rel_type.upper().replace(" ", "_").replace("/", "_")
rel_label(rel_type) == replace(replace(upper(rel_type), " ", "_"), "/", "_")

(***************************************************************************)
(* Neo4jImporter: node imports.  Each is a loop of MERGE .. SET queries.   *)
(***************************************************************************)
import_period(st, period) ==
    merge_node(st, "Period", Get(period, "id"),
        [name |-> Get(period, "name"),
         time_range |-> serialize_prop(Get(period, "time_range")),
         dynastic_info |-> Get(period, "dynastic_info"),
         source_book |-> Get(period, "source_book")])

import_periods(st, periods) == Fold(import_period, st, periods)

import_location(st, loc) ==
    merge_node(st, "Location", Get(loc, "id"),
        [historical_names |-> serialize_prop(Get(loc, "historical_names")),
         modern_address |-> Get(loc, "modern_address"),
         coordinates |-> serialize_prop(Get(loc, "coordinates")),
         source_book |-> Get(loc, "source_book")])

import_locations(st, locations) == Fold(import_location, st, locations)

import_iconography(st, icon) ==
    merge_node(st, "Iconography", Get(icon, "id"),
        [name |-> serialize_prop(Get(icon, "name")),
         parent_id |-> Get(icon, "parent_id"),
         visual_elements |-> serialize_prop(Get(icon, "visual_elements")),
         source_book |-> Get(icon, "source_book")])

import_iconographies(st, iconographies) == Fold(import_iconography, st, iconographies)

import_person(st, person) ==
    merge_node(st, "Person", Get(person, "id"),
        [primary_role |-> Get(person, "primary_role"),
         name |-> Get(person, "name"),
         courtesy_name |-> Get(person, "courtesy_name"),
         pseudonym |-> Get(person, "pseudonym"),
         other_names |-> serialize_prop(Get(person, "other_names")),
         choronym |-> Get(person, "choronym"),
         birth_death |-> serialize_prop(Get(person, "birth_death")),
         period_ref |-> Get(person, "period_ref"),
         authority_ids |-> serialize_prop(Get(person, "authority_ids")),
         biography |-> Get(person, "biography"),
         source_book |-> Get(person, "source_book")])

import_persons(st, persons) == Fold(import_person, st, persons)

import_work(st, work) ==
    merge_node(st, "Work", Get(work, "id"),
        [title |-> Get(work, "title"),
         creator_ref |-> Get(work, "creator_ref"),
         period_ref |-> Get(work, "period_ref"),
         icon_ref |-> Get(work, "icon_ref"),
         status |-> Get(work, "status"),
         support |-> Get(work, "support"),
         dimensions |-> serialize_prop(Get(work, "dimensions")),
         repository |-> Get(work, "repository"),
         description |-> Get(work, "description"),
         source_book |-> Get(work, "source_book")])

import_works(st, works) == Fold(import_work, st, works)

import_literature_node(st, lit) ==
    merge_node(st, "Literature", Get(lit, "id"),
        [target_ref |-> Get(lit, "target_ref"),
         source_book |-> Get(lit, "source_book"),
         author_ref |-> Get(lit, "author_ref"),
         quality_rank |-> Get(lit, "quality_rank"),
         quote |-> Get(lit, "quote"),
         source_book_ref |-> Get(lit, "source_book_ref")])

import_literature(st, literature) == Fold(import_literature_node, st, literature)

(***************************************************************************)
(* Neo4jImporter: relationship derivation.  One operator per query.        *)
(***************************************************************************)
worked_at(st, cv) ==
    merge_edge(st, "Person", Get(cv, "person_ref"), WORKED_AT,
               "Location", Get(cv, "location_ref"),
        [official_title |-> Get(cv, "official_title"),
         rank |-> Get(cv, "rank"),
         tenure |-> serialize_prop(Get(cv, "tenure")),
         event_type |-> Get(cv, "event_type")])

active_in(st, cv) ==
    merge_edge(st, "Person", Get(cv, "person_ref"), ACTIVE_IN,
               "Period", Get(cv, "time_ref"), NoProps)

import_cv_record(st, cv) ==
    LET s1 == IF Truthy(Get(cv, "location_ref")) THEN worked_at(st, cv) ELSE st
    IN IF Truthy(Get(cv, "time_ref")) THEN active_in(s1, cv) ELSE s1

social(st, rel) ==
    merge_edge(st, "Person", Get(rel, "source_id"),
               rel_label(GetDefault(rel, "relation_type", RELATED_TO)),
               "Person", Get(rel, "target_id"),
        [formal_name |-> Get(rel, "formal_name"),
         source_book |-> Get(rel, "source_book")])

import_relationships(st, cv_records, social_relations) ==
    Fold(social, Fold(import_cv_record, st, cv_records), social_relations)

created(st, work) ==
    merge_edge(st, "Person", Get(work, "creator_ref"), CREATED,
               "Work", Get(work, "id"), NoProps)

dated_to(st, work) ==
    merge_edge(st, "Work", Get(work, "id"), DATED_TO,
               "Period", Get(work, "period_ref"), NoProps)

depicts(st, work) ==
    merge_edge(st, "Work", Get(work, "id"), DEPICTS,
               "Iconography", Get(work, "icon_ref"), NoProps)

import_work_relationship(st, work) ==
    LET s1 == IF Truthy(Get(work, "creator_ref")) THEN created(st, work) ELSE st
        s2 == IF Truthy(Get(work, "period_ref")) THEN dated_to(s1, work) ELSE s1
    IN IF Truthy(Get(work, "icon_ref")) THEN depicts(s2, work) ELSE s2

import_work_relationships(st, works) == Fold(import_work_relationship, st, works)

critiques(st, lit) ==
    merge_edge(st, "Literature", Get(lit, "id"), CRITIQUES,
               "Person", Get(lit, "target_ref"), NoProps)

records(st, lit) ==
    merge_edge(st, "Literature", Get(lit, "id"), RECORDS,
               "Work", Get(lit, "target_ref"), NoProps)

wrote(st, lit) ==
    merge_edge(st, "Person", Get(lit, "author_ref"), WROTE,
               "Literature", Get(lit, "id"), NoProps)

import_literature_relationship(st, lit) ==
    IF ~Truthy(Get(lit, "target_ref"))
    THEN st
    ELSE LET s2 == records(critiques(st, lit), lit)
         IN IF Truthy(Get(lit, "author_ref")) THEN wrote(s2, lit) ELSE s2

import_literature_relationships(st, literature) ==
    Fold(import_literature_relationship, st, literature)

\* data.get(key, []) of the loaded JSON document
GetList(data, k) == IF k \in DOMAIN data THEN data[k] ELSE <<>>

import_nodes(st, data) ==
    LET s1 == import_periods(st, GetList(data, "periods"))
        s2 == import_locations(s1, GetList(data, "locations"))
        s3 == import_iconographies(s2, GetList(data, "iconographies"))
        s4 == import_persons(s3, GetList(data, "persons"))
        s5 == import_works(s4, GetList(data, "works"))
    IN import_literature(s5, GetList(data, "literature"))

import_file(st, data) ==
    LET s6 == import_nodes(st, data)
        s7 == import_relationships(s6, GetList(data, "cv_records"),
                                   GetList(data, "social_relations"))
        s8 == import_work_relationships(s7, GetList(data, "works"))
    IN import_literature_relationships(s8, GetList(data, "literature"))

(***************************************************************************)
(* Aggregate results read by the importer: the records of a small world    *)
(* (two persons, one work, one literature record, one period, location and *)
(* iconography), with two versions of the work.                            *)
(***************************************************************************)
MaxRecs == 2        \* records in one aggregate result
MaxFiles == 2       \* import_file calls in one run of main

T1 == [id |-> Str("t1"), name |-> Str("Tang"), time_range |-> Dict("618-907"),
       source_book |-> Str("A")]
L1 == [id |-> Str("l1"), historical_names |-> List("Wuxing"),
       modern_address |-> Str("Huzhou"), source_book |-> Str("A")]
I1 == [id |-> Str("i1"), name |-> Dict("zh:lohan"), visual_elements |-> List("robe"),
       source_book |-> Str("A")]
P1 == [id |-> Str("p1"), primary_role |-> Str("Painter"), name |-> Str("Zhang"),
       courtesy_name |-> Str("Zi"), other_names |-> List("x"),
       authority_ids |-> Dict("CBDB:1"), source_book |-> Str("A")]
P2 == [id |-> Str("p2"), primary_role |-> Str("Painter"), name |-> Str("Li"),
       source_book |-> Str("A")]
W1a == [id |-> Str("w1"), title |-> Str("Scroll"), creator_ref |-> Str("p1"),
        period_ref |-> Str("t1"), icon_ref |-> Str("i1"), dimensions |-> Dict("27x572"),
        source_book |-> Str("A")]
W1b == [id |-> Str("w1"), title |-> Str("Scroll"), creator_ref |-> Str("p2"),
        status |-> Str("Lost"), source_book |-> Str("B")]
LitA == [id |-> Str("lit1"), target_ref |-> Str("p1"), source_book |-> Str("Xuanhe"),
         author_ref |-> Str("p2"), source_book_ref |-> Str("A")]
CV1 == [id |-> Str("cv1"), person_ref |-> Str("p1"), official_title |-> Str("a"),
        tenure |-> Dict("1310-1313"), location_ref |-> Str("l1"), time_ref |-> Str("t1"),
        source_book |-> Str("A")]
CV2 == [id |-> Str("cv2"), person_ref |-> Str("p1"), official_title |-> Str("b"),
        rank |-> Str("3"), location_ref |-> Str("l1"), source_book |-> Str("A")]
S1 == [id |-> Str("s1"), source_id |-> Str("p1"), target_id |-> Str("p2"),
       relation_type |-> <<"a", " ", "b">>, formal_name |-> Str("x"),
       source_book |-> Str("A")]
Universe ==
    [periods |-> {T1}, locations |-> {L1}, iconographies |-> {I1},
     persons |-> {P1, P2}, cv_records |-> {CV1, CV2},
     social_relations |-> {S1}, works |-> {W1a, W1b}, literature |-> {LitA}]

Kinds == DOMAIN Universe

\* The lists over U of at most MaxRecs records with pairwise distinct ids
\* (an aggregate result is deduplicated by id).
ListsOf(U) ==
    {l \in UNION {[1..n -> U] : n \in 0..MaxRecs} :
        \A i, j \in 1..Len(l) : i # j => l[i].id # l[j].id}

RECURSIVE SumLen(_, _)
SumLen(data, ks) ==
    IF ks = {} THEN 0
    ELSE LET k == CHOOSE x \in ks : TRUE
         IN Len(data[k]) + SumLen(data, ks \ {k})

AllResults ==
    {d \in [periods : ListsOf(Universe.periods), locations : ListsOf(Universe.locations),
            iconographies : ListsOf(Universe.iconographies),
            persons : ListsOf(Universe.persons), cv_records : ListsOf(Universe.cv_records),
            social_relations : ListsOf(Universe.social_relations),
            works : ListsOf(Universe.works), literature : ListsOf(Universe.literature)] :
        SumLen(d, Kinds) <= MaxRecs}

\* The aggregate results, enumerated once.
AggregateResults == {d : d \in AllResults}

(***************************************************************************)
(* History of an import run, kept beside the store: which record was last  *)
(* imported for a node, and last applied to an edge that carries           *)
(* properties.                                                             *)
(***************************************************************************)
HasNode(ns, label, id) == \E n \in BagToSet(ns) : n.label = label /\ n.id = id

Tag(label, recs) == [i \in 1..Len(recs) |-> <<label, recs[i]>>]

NodeRecords(data) ==
    Tag("Period", data.periods) \o Tag("Location", data.locations)
    \o Tag("Iconography", data.iconographies) \o Tag("Person", data.persons)
    \o Tag("Work", data.works) \o Tag("Literature", data.literature)

NoteNode(h, lr) == (<<lr[1], lr[2].id>> :> lr[2]) @@ h

NoteWorkedAt(ns, h, cv) ==
    IF Truthy(Get(cv, "location_ref")) /\ HasNode(ns, "Person", Get(cv, "person_ref"))
       /\ HasNode(ns, "Location", Get(cv, "location_ref"))
    THEN (<<<<"Person", cv.person_ref>>, WORKED_AT, <<"Location", cv.location_ref>>>> :> cv) @@ h
    ELSE h

NoteSocial(ns, h, rel) ==
    IF HasNode(ns, "Person", Get(rel, "source_id")) /\ HasNode(ns, "Person", Get(rel, "target_id"))
    THEN (<<<<"Person", rel.source_id>>, rel_label(rel.relation_type),
            <<"Person", rel.target_id>>>> :> rel) @@ h
    ELSE h

NoteEdges(ns, h, data) ==
    LET wa(x, cv) == NoteWorkedAt(ns, x, cv)
        so(x, rel) == NoteSocial(ns, x, rel)
    IN Fold(so, Fold(wa, h, data.cv_records), data.social_relations)

NoHistory == [k \in {} |-> None]

(***************************************************************************)
(* main(): clear, declare constraints, import each file, report.           *)
(***************************************************************************)
Store == [nodes |-> nodes, edges |-> edges]

InitImport ==
    /\ nodes = EmptyBag
    /\ edges = EmptyBag
    /\ constraints = {}
    /\ ipc = "idle"
    /\ nImported = 0
    /\ lastNode = NoHistory
    /\ lastEdge = NoHistory

ClearDatabase ==
    /\ ipc = "idle"
    /\ nodes' = clear_database(Store).nodes
    /\ edges' = clear_database(Store).edges
    /\ lastNode' = NoHistory
    /\ lastEdge' = NoHistory
    /\ nImported' = 0
    /\ ipc' = "cleared"
    /\ UNCHANGED <<constraints, notImport>>

CreateConstraints ==
    /\ ipc = "cleared"
    /\ constraints' = create_constraints(constraints)
    /\ ipc' = "constrained"
    /\ UNCHANGED <<nodes, edges, nImported, lastNode, lastEdge>>
    /\ UNCHANGED notImport

ImportFile ==
    /\ ipc \in {"constrained", "importing"}
    /\ nImported < MaxFiles
    /\ \E data \in AggregateResults :
        LET st == import_file(Store, data)
        IN /\ nodes' = st.nodes
           /\ edges' = st.edges
           /\ lastNode' = Fold(NoteNode, lastNode, NodeRecords(data))
           /\ lastEdge' = NoteEdges(st.nodes, lastEdge, data)
    /\ nImported' = nImported + 1
    /\ ipc' = "importing"
    /\ UNCHANGED <<constraints, notImport>>

GetStats ==
    /\ ipc = "importing"
    /\ ipc' = "reported"
    /\ UNCHANGED <<nodes, edges, constraints, nImported, lastNode, lastEdge>>
    /\ UNCHANGED notImport

Close ==
    /\ ipc = "reported"
    /\ ipc' = "idle"
    /\ UNCHANGED <<nodes, edges, constraints, nImported, lastNode, lastEdge>>
    /\ UNCHANGED notImport

NextImport == ClearDatabase \/ CreateConstraints \/ ImportFile \/ GetStats \/ Close

(***************************************************************************)
(* Claims on the importer.                                                 *)
(***************************************************************************)
CanImport == ipc \in {"constrained", "importing"} /\ nImported < MaxFiles

Copies(bag, e) == IF BagIn(e, bag) THEN CopiesIn(e, bag) ELSE 0

NodesAt(label, id) == {n \in BagToSet(nodes) : n.label = label /\ n.id = id}

EdgesAt(src, type, dst) ==
    {e \in BagToSet(edges) : e.src = src /\ e.type = type /\ e.dst = dst}

\* C1: wherever import_file can be called, and for every aggregate result,
\* importing the result twice in succession leaves the same bag of nodes and
\* the same bag of edges as importing it once.
C1_ImportIdempotent ==
    CanImport =>
        \A data \in AggregateResults :
            \A once \in {import_file(Store, data)} :
                import_file(once, data) = once

\* C1 witness: the store after a result holding a person and a work created by
\* that person was imported twice into the cleared store; it holds the edge once.
C1_Witness ==
    /\ nImported = 2
    /\ \E data \in AggregateResults :
        /\ data.persons # <<>> /\ data.works # <<>>
        /\ Store = import_file(import_file(EmptyStore, data), data)
    /\ BagCardinality(edges) = 1

\* C2: the store holds exactly one node for every (label, id) imported in the
\* run and no other node, and each property of that node is the (serialized)
\* value the most recently imported record with that id gives for it; a field
\* the last record leaves out is null in the store.
C2_NodePerIdLatestProps ==
    /\ \A n \in BagToSet(nodes) : <<n.label, n.id>> \in DOMAIN lastNode
    /\ \A key \in DOMAIN lastNode :
        LET rec == lastNode[key]
            found == NodesAt(key[1], key[2])
        IN /\ Cardinality(found) = 1
           /\ \A n \in found :
                /\ Copies(nodes, n) = 1
                /\ \A f \in DOMAIN n.props : n.props[f] = serialize_prop(Get(rec, f))
                /\ \A f \in (DOMAIN rec) \ {"id"} : f \in DOMAIN n.props

\* C2 witness: work w1 was imported as W1a and then as W1b; the node carries
\* W1b's values, and W1a's period, iconography and dimensions are gone.
C2_Witness ==
    /\ nImported = 2
    /\ \E d1, d2 \in AggregateResults :
        /\ d1.works = <<W1a>> /\ d2.works = <<W1b>>
        /\ Store = import_file(import_file(EmptyStore, d1), d2)
    /\ \E n \in NodesAt("Work", Str("w1")) :
        /\ n.props.creator_ref = Str("p2") /\ n.props.status = Str("Lost")
        /\ n.props.period_ref = None /\ n.props.dimensions = None

Realised(src, type, dst) ==
    /\ Cardinality(EdgesAt(src, type, dst)) = 1
    /\ \A e \in EdgesAt(src, type, dst) : Copies(edges, e) = 1

\* C3 (as claimed), for the references of the Work and Literature records last
\* imported: once the run has reported, each reference whose two endpoint nodes
\* exist in the store is realised by exactly one edge of its type.
C3_ReferencesResolvedAtEnd ==
    ipc = "reported" =>
        \A key \in DOMAIN lastNode :
            LET rec == lastNode[key]
                me == <<key[1], key[2]>>
                to(label, ref) == HasNode(nodes, label, Get(rec, ref))
            IN /\ (key[1] = "Work" /\ to("Person", "creator_ref"))
                    => Realised(<<"Person", rec.creator_ref>>, CREATED, me)
               /\ (key[1] = "Work" /\ to("Period", "period_ref"))
                    => Realised(me, DATED_TO, <<"Period", rec.period_ref>>)
               /\ (key[1] = "Work" /\ to("Iconography", "icon_ref"))
                    => Realised(me, DEPICTS, <<"Iconography", rec.icon_ref>>)
               /\ (key[1] = "Literature" /\ to("Person", "target_ref"))
                    => Realised(me, CRITIQUES, <<"Person", rec.target_ref>>)
               /\ (key[1] = "Literature" /\ to("Work", "target_ref"))
                    => Realised(me, RECORDS, <<"Work", rec.target_ref>>)
               /\ (key[1] = "Literature" /\ to("Person", "author_ref"))
                    => Realised(<<"Person", rec.author_ref>>, WROTE, me)

\* The nine relationship queries, each with the record kind it reads and its
\* two endpoints.
Queries ==
    {"worked_at", "active_in", "social", "created", "dated_to", "depicts",
     "critiques", "records", "wrote"}

QueryKind(q) ==
    CASE q \in {"worked_at", "active_in"} -> "cv_records"
      [] q = "social" -> "social_relations"
      [] q \in {"created", "dated_to", "depicts"} -> "works"
      [] OTHER -> "literature"

RunQuery(q, st, rec) ==
    CASE q = "worked_at" -> worked_at(st, rec)
      [] q = "active_in" -> active_in(st, rec)
      [] q = "social" -> social(st, rec)
      [] q = "created" -> created(st, rec)
      [] q = "dated_to" -> dated_to(st, rec)
      [] q = "depicts" -> depicts(st, rec)
      [] q = "critiques" -> critiques(st, rec)
      [] q = "records" -> records(st, rec)
      [] OTHER -> wrote(st, rec)

SourceOf(q, rec) ==
    CASE q \in {"worked_at", "active_in"} -> <<"Person", Get(rec, "person_ref")>>
      [] q = "social" -> <<"Person", Get(rec, "source_id")>>
      [] q = "created" -> <<"Person", Get(rec, "creator_ref")>>
      [] q \in {"dated_to", "depicts"} -> <<"Work", Get(rec, "id")>>
      [] q \in {"critiques", "records"} -> <<"Literature", Get(rec, "id")>>
      [] OTHER -> <<"Person", Get(rec, "author_ref")>>

TargetOf(q, rec) ==
    CASE q = "worked_at" -> <<"Location", Get(rec, "location_ref")>>
      [] q = "active_in" -> <<"Period", Get(rec, "time_ref")>>
      [] q = "social" -> <<"Person", Get(rec, "target_id")>>
      [] q = "created" -> <<"Work", Get(rec, "id")>>
      [] q = "dated_to" -> <<"Period", Get(rec, "period_ref")>>
      [] q = "depicts" -> <<"Iconography", Get(rec, "icon_ref")>>
      [] q = "critiques" -> <<"Person", Get(rec, "target_ref")>>
      [] q = "records" -> <<"Work", Get(rec, "target_ref")>>
      [] OTHER -> <<"Literature", Get(rec, "id")>>

Dangling(q, rec) ==
    \/ ~HasNode(nodes, SourceOf(q, rec)[1], SourceOf(q, rec)[2])
    \/ ~HasNode(nodes, TargetOf(q, rec)[1], TargetOf(q, rec)[2])

\* C4: in every store the imports reach, each of the nine relationship queries,
\* run for a record one of whose endpoint nodes is absent, leaves the store as
\* it is: no edge is created and no node or other edge changes.
C4_DanglingReferenceSkipped ==
    \A q \in Queries :
        \A rec \in Universe[QueryKind(q)] :
            Dangling(q, rec) => RunQuery(q, Store, rec) = Store

\* C4 witness: work w1 was imported with creator_ref p2, no Person p2 exists,
\* and the store holds the Work node and no CREATED edge.
C4_Witness ==
    /\ nImported >= 1
    /\ <<"Work", Str("w1")>> \in DOMAIN lastNode
    /\ lastNode[<<"Work", Str("w1")>>] = W1b
    /\ NodesAt("Work", Str("w1")) # {}
    /\ NodesAt("Person", Str("p2")) = {}
    /\ \A e \in BagToSet(edges) : e.type # CREATED

\* C5: the store holds at most one edge per (source, type, target); an edge
\* that carries properties has, for each of them, the (serialized) value of the
\* last record applied to that triple, and every other edge has no property.
C5_OneEdgePerTriple ==
    /\ \A e \in BagToSet(edges) :
        /\ Copies(edges, e) = 1
        /\ EdgesAt(e.src, e.type, e.dst) = {e}
        /\ IF <<e.src, e.type, e.dst>> \in DOMAIN lastEdge
           THEN \A f \in DOMAIN e.props :
                    e.props[f] = serialize_prop(Get(lastEdge[<<e.src, e.type, e.dst>>], f))
           ELSE e.props = NoProps
    /\ \A t \in DOMAIN lastEdge : EdgesAt(t[1], t[2], t[3]) # {}

\* C5 witness: CV1 and then CV2, which name the same person and location, were
\* applied in one import; the single WORKED_AT edge carries CV2's values.
C5_Witness ==
    /\ nImported = 2
    /\ \E d1, d2 \in AggregateResults :
        /\ d1.persons = <<P1>> /\ d1.locations = <<L1>>
        /\ d2.cv_records = <<CV1, CV2>>
        /\ Store = import_file(import_file(EmptyStore, d1), d2)
    /\ \E e \in BagToSet(edges) :
        /\ e.type = WORKED_AT
        /\ e.props.official_title = Str("b")
        /\ e.props.tenure = None
        /\ edges = SetToBag({e})

(***************************************************************************)
(* EntityExtractor.extract_from_text.                                      *)
(*                                                                         *)
(* A response is a sequence of characters.  "{" and "}" are braces, "c" is *)
(* any character of commentary, and "P", "W", "L", "B" each stand for the  *)
(* text of one array entry of the JSON object: a person, a work, a         *)
(* literature record, and a person entry without its required name.        *)
(***************************************************************************)
MaxContent == 4         \* characters of a response after its padding

StopAfterAttempt == 3   \* stop_after_attempt(3)
MaxTextLen == 6000      \* len(text) > 6000
TruncatedMarkLen == 14  \* len("...[truncated]")
NotePrefixLen == 200    \* content[:200]

Alphabet == {"{", "}", "c", "P", "W", "L", "B"}

Pad(n) == [i \in 1..n |-> "c"]

\* The responses: up to MaxContent characters, alone or after NotePrefixLen
\* characters of commentary.
Contents ==
    {Pad(n) \o tail : n \in {0, NotePrefixLen},
                      tail \in UNION {[1..k -> Alphabet] : k \in 0..MaxContent}}

Errors == {"timeout", "rate limit"}

TextLens == {100, MaxTextLen, MaxTextLen + 1}

Labels == {"book - A", "book - B"}

Min(a, b) == IF a <= b THEN a ELSE b

\* text[:n]
Prefix(str, n) == SubSeq(str, 1, Min(n, Len(str)))

\* if len(text) > 6000: text = text[:6000] + "...[truncated]"
truncate_len(n) == IF n > MaxTextLen THEN MaxTextLen + TruncatedMarkLen ELSE n

Positions(str, ch) == {i \in 1..Len(str) : str[i] = ch}

SetMin(S) == CHOOSE x \in S : \A y \in S : x <= y
SetMax(S) == CHOOSE x \in S : \A y \in S : x >= y

\* re.search(r"\{[\s\S]*\}", content): the span from the first "{" to the last
\* "}" after it (the quantifier is greedy); <<>> when there is no match.
re_search(str) ==
    LET open == Positions(str, "{")
        close == Positions(str, "}")
    IN IF open # {} /\ close # {} /\ SetMin(open) < SetMax(close)
       THEN SubSeq(str, SetMin(open), SetMax(close))
       ELSE <<>>

\* Nesting depth after the first i characters.
Depth(str, i) ==
    Cardinality({j \in 1..i : str[j] = "{"}) - Cardinality({j \in 1..i : str[j] = "}"})

\* json.loads accepts the text when it is one object: the brace opened first is
\* closed by the last character, and no commentary stands in it.
json_valid(str) ==
    /\ Len(str) >= 2
    /\ str[1] = "{"
    /\ \A i \in 1..(Len(str) - 1) : Depth(str, i) >= 1
    /\ Depth(str, Len(str)) = 0
    /\ \A i \in 1..Len(str) : str[i] # "c"

\* The entries of the parsed object's own arrays, in order (an entry inside a
\* nested object belongs to no array of the eight).
json_entries(str) ==
    LET at == {i \in 1..Len(str) : str[i] \in {"P", "W", "L", "B"} /\ Depth(str, i) = 1}
        F[i \in 0..Len(str)] ==
            IF i = 0 THEN <<>>
            ELSE IF i \in at THEN Append(F[i - 1], str[i]) ELSE F[i - 1]
    IN F[Len(str)]

SelectEntries(entries, chars) ==
    LET F[i \in 0..Len(entries)] ==
            IF i = 0 THEN <<>>
            ELSE IF entries[i] \in chars THEN Append(F[i - 1], entries[i]) ELSE F[i - 1]
    IN F[Len(entries)]

\* A mutant of PersonOf: the label is not stamped.
PersonOf_unstamped(label) ==
    [id |-> Str("p1"), primary_role |-> Str("Painter"), name |-> Str("Zhang"),
     source_book |-> None]

\* Person(**p, source_book=source_file) and Work(**w, source_book=source_file)
PersonOf(label) ==
    [id |-> Str("p1"), primary_role |-> Str("Painter"), name |-> Str("Zhang"),
     source_book |-> Str(label)]
WorkOf(label) ==
    [id |-> Str("w1"), title |-> Str("Scroll"), creator_ref |-> Str("p1"),
     source_book |-> Str(label)]

\* Literature(**lit, source_book_ref=source_file): source_book is a field of
\* the entry, the book the record cites.
LiteratureOf(label) ==
    [id |-> Str("lit1"), target_ref |-> Str("p1"), source_book |-> Str("Xuanhe"),
     source_book_ref |-> Str(label)]

EmptyResult(label) ==
    [source_file |-> label, periods |-> <<>>, locations |-> <<>>, iconographies |-> <<>>,
     persons |-> <<>>, cv_records |-> <<>>, social_relations |-> <<>>, works |-> <<>>,
     literature |-> <<>>, extraction_notes |-> <<>>]

NoResult == EmptyResult("")

\* f"Failed to parse JSON from response: {content[:200]}"
failed_to_parse_note(str) ==
    [head |-> "Failed to parse JSON from response: ", text |-> Prefix(str, NotePrefixLen)]

\* A mutant of extraction_error_note: the error is not described.
extraction_error_note_blank(e) == [head |-> "Extraction error: ", text |-> <<"">>]

\* f"Extraction error: {str(e)}"
extraction_error_note(e) == [head |-> "Extraction error: ", text |-> <<e>>]

\* The try block: what it returns ("ret") or the exception it leaves with ("exc").
try_block(inv, label) ==
    IF inv.raised THEN [exc |-> inv.error, ret |-> NoResult]
    ELSE LET json_str == re_search(inv.content)
         IN IF json_str = <<>>
            THEN [exc |-> "", ret |-> [EmptyResult(label) EXCEPT
                      !.extraction_notes = <<failed_to_parse_note(inv.content)>>]]
            ELSE IF ~json_valid(json_str)
            THEN [exc |-> "JSONDecodeError", ret |-> NoResult]
            ELSE IF \E i \in 1..Len(json_entries(json_str)) : json_entries(json_str)[i] = "B"
            THEN [exc |-> "ValidationError", ret |-> NoResult]
            ELSE [exc |-> "", ret |-> [EmptyResult(label) EXCEPT
                      !.persons = [i \in 1..Len(SelectEntries(json_entries(json_str), {"P"}))
                                      |-> PersonOf(label)],
                      !.works = [i \in 1..Len(SelectEntries(json_entries(json_str), {"W"}))
                                      |-> WorkOf(label)],
                      !.literature =
                          [i \in 1..Len(SelectEntries(json_entries(json_str), {"L"}))
                              |-> LiteratureOf(label)]]]

\* A mutant of extract_body: no except clause, the exception leaves the function.
extract_body_no_except(inv, label) ==
    LET t == try_block(inv, label)
    IN IF t.exc # "" THEN [raised |-> TRUE, error |-> t.exc, ret |-> NoResult]
       ELSE [raised |-> FALSE, error |-> "", ret |-> t.ret]

\* A mutant of extract_body: the note of a response without JSON quotes all of it.
extract_body_whole_quote(inv, label) ==
    LET t == try_block(inv, label)
    IN IF t.exc # ""
       THEN [raised |-> FALSE, error |-> "",
             ret |-> [EmptyResult(label) EXCEPT
                         !.extraction_notes = <<extraction_error_note(t.exc)>>]]
       ELSE IF t.ret.extraction_notes # <<>>
       THEN [raised |-> FALSE, error |-> "",
             ret |-> [t.ret EXCEPT !.extraction_notes =
                         <<[head |-> "Failed to parse JSON from response: ",
                            text |-> inv.content]>>]]
       ELSE [raised |-> FALSE, error |-> "", ret |-> t.ret]

\* The body of extract_from_text: try .. except Exception as e.
extract_body(inv, label) ==
    LET t == try_block(inv, label)
    IN IF t.exc # ""
       THEN [raised |-> FALSE, error |-> "",
             ret |-> [EmptyResult(label) EXCEPT
                         !.extraction_notes = <<extraction_error_note(t.exc)>>]]
       ELSE [raised |-> FALSE, error |-> "", ret |-> t.ret]

\* @retry(stop=stop_after_attempt(3), ...): what the decorator does with the
\* outcome of one attempt of the body.
retry_decision(outcome, n) ==
    IF ~outcome.raised THEN "return"
    ELSE IF n >= StopAfterAttempt THEN "reraise"
    ELSE "retry"

InitExtract ==
    /\ xpc = "idle"
    /\ attempt = 0
    /\ prompt_len = 0
    /\ source_file = ""
    /\ calls = <<>>
    /\ error = ""
    /\ content = <<>>
    /\ result = NoResult

\* A caller calls extract_from_text(text, source_file).
ExtractCall ==
    /\ xpc = "idle"
    /\ \E n \in TextLens : prompt_len' = truncate_len(n)
    /\ \E label \in Labels : source_file' = label
    /\ attempt' = 1
    /\ calls' = <<>>
    /\ error' = ""
    /\ content' = <<>>
    /\ result' = NoResult
    /\ xpc' = "calling"
    /\ UNCHANGED notExtract

\* One attempt of the body, for one outcome of llm.invoke.
Attempt(inv) ==
    LET outcome == extract_body(inv, source_file)
        decision == retry_decision(outcome, attempt)
    IN /\ calls' = Append(calls, IF inv.raised THEN "fail" ELSE "ok")
       /\ error' = inv.error
       /\ content' = IF decision = "return" THEN inv.content ELSE <<>>
       /\ result' = IF decision = "return" THEN outcome.ret ELSE NoResult
       /\ attempt' = IF decision = "retry" THEN attempt + 1 ELSE attempt
       /\ xpc' = CASE decision = "return" -> "done"
                   [] decision = "retry" -> "calling"
                   [] OTHER -> "raised"
       /\ UNCHANGED <<prompt_len, source_file, notExtract>>

InvokeRaises ==
    /\ xpc = "calling"
    /\ \E e \in Errors : Attempt([raised |-> TRUE, error |-> e, content |-> <<>>])

InvokeReturns ==
    /\ xpc = "calling"
    /\ \E c \in Contents : Attempt([raised |-> FALSE, error |-> "", content |-> c])

\* The caller has taken the result (or the exception); the frame of the call
\* is gone and the extractor is ready for the next chunk.
ExtractReturn ==
    /\ xpc \in {"done", "raised"}
    /\ xpc' = "idle"
    /\ attempt' = 0
    /\ prompt_len' = 0
    /\ source_file' = ""
    /\ calls' = <<>>
    /\ error' = ""
    /\ content' = <<>>
    /\ result' = NoResult
    /\ UNCHANGED notExtract

NextExtract == ExtractCall \/ InvokeRaises \/ InvokeReturns \/ ExtractReturn

(***************************************************************************)
(* Claims on extract_from_text.                                            *)
(***************************************************************************)
EntityLists ==
    {"periods", "locations", "iconographies", "persons", "cv_records",
     "social_relations", "works", "literature"}

AllListsEmpty(r) == \A k \in EntityLists : r[k] = <<>>

Returned == xpc = "done"

LastCall == calls[Len(calls)]

\* The response holds no JSON object: the pattern matches nowhere.
NoJsonObject(str) == re_search(str) = <<>>

\* The response holds a JSON object that fails JSON parsing or schema typing.
BadJsonObject(str) ==
    /\ ~NoJsonObject(str)
    /\ \/ ~json_valid(re_search(str))
       \/ \E i \in 1..Len(json_entries(re_search(str))) :
              json_entries(re_search(str))[i] = "B"

\* C6: extract_from_text never raises to its caller; for every outcome of the
\* completion-service call it returns an ExtractionResult for its label, and
\* every failure outcome (an exception from the call, no JSON object, a JSON
\* object that fails parsing or typing) returns one extraction note and no
\* record: the result holds records or notes, never both.
C6_NeverRaises ==
    /\ xpc # "raised"
    /\ Returned =>
         /\ result.source_file = source_file
         /\ result.extraction_notes # <<>> => AllListsEmpty(result)
         /\ (LastCall = "fail" \/ NoJsonObject(content) \/ BadJsonObject(content))
              => Len(result.extraction_notes) = 1
         /\ (LastCall = "ok" /\ ~NoJsonObject(content) /\ ~BadJsonObject(content))
              => result.extraction_notes = <<>>

C6_Witness ==
    /\ Returned
    /\ LastCall = "fail"
    /\ result.extraction_notes # <<>>
    /\ AllListsEmpty(result)

\* C7: when a call to the completion service raises, the service is invoked
\* again, up to 3 attempts in all, before the engine gives up on the chunk: a
\* call that returned after a failed invocation either made all 3 attempts or
\* ended on an invocation that succeeded.
C7_RetriedAfterFailure ==
    (Returned /\ \E i \in 1..Len(calls) : calls[i] = "fail")
        => (Len(calls) = StopAfterAttempt \/ LastCall = "ok")

\* C8 as stated: for a response without a JSON object and for one whose JSON
\* object fails parsing or typing alike, the eight lists are empty and the
\* note quotes the first 200 characters (at most) of the response.
C8_NoteQuotesResponse ==
    (Returned /\ LastCall = "ok" /\ (NoJsonObject(content) \/ BadJsonObject(content)))
        => /\ AllListsEmpty(result)
           /\ Len(result.extraction_notes) = 1
           /\ result.extraction_notes[1].text = Prefix(content, NotePrefixLen)

\* C8, amended: for a response without a JSON object the eight lists are empty
\* and the note quotes the first 200 characters (at most) of the response; for
\* a response whose JSON object fails parsing or typing the eight lists are
\* empty and the note carries the description of the error, not the response.
C8_MalformedOutputNote ==
    (Returned /\ LastCall = "ok") =>
        /\ NoJsonObject(content) =>
             /\ AllListsEmpty(result)
             /\ Len(result.extraction_notes) = 1
             /\ result.extraction_notes[1].head = "Failed to parse JSON from response: "
             /\ result.extraction_notes[1].text = Prefix(content, NotePrefixLen)
             /\ Len(result.extraction_notes[1].text) <= NotePrefixLen
        /\ BadJsonObject(content) =>
             /\ AllListsEmpty(result)
             /\ Len(result.extraction_notes) = 1
             /\ result.extraction_notes[1].head = "Extraction error: "
             /\ result.extraction_notes[1].text \in
                    {<<"JSONDecodeError">>, <<"ValidationError">>}

\* A response without a JSON object and longer than the quoted prefix.
C8_Witness ==
    /\ Returned
    /\ LastCall = "ok"
    /\ NoJsonObject(content)
    /\ Len(content) > NotePrefixLen
    /\ Len(result.extraction_notes) = 1
    /\ Len(result.extraction_notes[1].text) = NotePrefixLen

\* A result built from a successfully parsed response.
Built == Returned /\ LastCall = "ok" /\ result.extraction_notes = <<>>

\* C12 as stated: in every result built from a successfully parsed response,
\* every record of every one of the eight kinds has source_book equal to the
\* label of the call.
C12_SourceBookIsLabel ==
    Built =>
        \A k \in EntityLists :
            \A i \in 1..Len(result[k]) : result[k][i].source_book = Str(source_file)

\* C12, amended: in every result built from a successfully parsed response,
\* every record of the seven kinds other than Literature has source_book
\* equal to the label of the call; a Literature record has source_book_ref
\* equal to the label, and its source_book is the one the response gives.
C12_ProvenanceStamped ==
    Built =>
        /\ \A k \in EntityLists \ {"literature"} :
               \A i \in 1..Len(result[k]) : result[k][i].source_book = Str(source_file)
        /\ \A i \in 1..Len(result.literature) :
               /\ result.literature[i].source_book_ref = Str(source_file)
               /\ result.literature[i].source_book = Str("Xuanhe")

\* A result with a person and a literature record.
C12_Witness ==
    /\ Built
    /\ Len(result.persons) = 1
    /\ Len(result.literature) = 1

\* The first balanced {...} span of a response: from its first "{" to the
\* "}" that closes it; <<>> when there is none.
FirstBalanced(str) ==
    LET open == Positions(str, "{")
        first == SetMin(open)
        closes == {j \in first..Len(str) : Depth(SubSeq(str, first, j), j - first + 1) = 0}
    IN IF open = {} \/ closes = {} THEN <<>>
       ELSE SubSeq(str, first, SetMin(closes))

\* The response holds a well-formed JSON object with well-typed entries as
\* its first balanced span.
HasObject(str) ==
    /\ FirstBalanced(str) # <<>>
    /\ json_valid(FirstBalanced(str))
    /\ \A i \in 1..Len(json_entries(FirstBalanced(str))) :
           json_entries(FirstBalanced(str))[i] # "B"

\* C17: for every response that holds a well-formed JSON object, whatever
\* commentary, with or without braces, stands before and after it, the call
\* returns the records of the first balanced {...} span: the result it
\* returns for that span alone.
C17_FirstBalancedSpanParsed ==
    (Returned /\ LastCall = "ok" /\ HasObject(content)) =>
        result = try_block([raised |-> FALSE, error |-> "",
                            content |-> FirstBalanced(content)], source_file).ret

\* C18: when every call of the completion service fails, the call makes no
\* more than 3 calls and returns a result whose eight lists are empty and
\* whose one note carries the description of the error raised.
C18_ExhaustionAnnotated ==
    /\ Len(calls) <= StopAfterAttempt
    /\ (Returned /\ \A i \in 1..Len(calls) : calls[i] = "fail") =>
           /\ error \in Errors
           /\ AllListsEmpty(result)
           /\ result.extraction_notes = <<extraction_error_note(error)>>
           /\ result.extraction_notes[1].text = <<error>>

\* The service was rate limited; the call has returned.
C18_Witness ==
    /\ Returned
    /\ calls # <<>>
    /\ \A i \in 1..Len(calls) : calls[i] = "fail"
    /\ error = "rate limit"
    /\ result.extraction_notes[1].text = <<"rate limit">>

(***************************************************************************)
(* BatchExtractor.process_file: extract every chunk of every section of a  *)
(* file, accumulate the records, deduplicate each kind by id.              *)
(***************************************************************************)
MaxSections == 2        \* sections of a file
MaxResults == 3         \* chunks extracted from a file

MinSectionLen == 100    \* len(section_content) < 100

FileName == "book.md"     \* file_path.name
FileStem == "book"        \* file_path.stem, the 'filename' of get_file_info

SectionLens == {MinSectionLen - 1, MinSectionLen}

\* f"{file_info['filename']} - {heading}", the heading being the h-th of the file
SectionLabel(h) == <<FileStem, " - ", h>>

Ids == {"x1", "x2"}

AccLists == EntityLists \cup {"extraction_notes"}

EmptyAcc == [k \in AccLists |-> <<>>]

\* What extract_from_text can return for a chunk: nothing, a note, or a record
\* stamped with the label of the call.
ChunkResults(label) ==
    {EmptyResult(label)}
    \cup {[EmptyResult(label) EXCEPT !.extraction_notes = <<extraction_error_note("timeout")>>]}
    \cup {[EmptyResult(label) EXCEPT ![k] = <<[id |-> Str(id), source_book |-> Str(label)]>>] :
             k \in {"persons", "works"}, id \in Ids}
    \cup {[EmptyResult(label) EXCEPT
             !.literature = <<[id |-> Str(id), source_book_ref |-> Str(label)]>>] : id \in Ids}

\* A mutant of skip_section: no section is skipped.
skip_section_never(len) == FALSE

\* if len(section_content) < 100: continue
skip_section(len) == len < MinSectionLen

\* A mutant of extend: a result with a note empties the lists of records.
extend_reset_on_note(all, r) ==
    [k \in AccLists |->
        IF k = "extraction_notes" THEN all[k] \o r[k]
        ELSE IF r.extraction_notes # <<>> THEN <<>>
        ELSE all[k] \o r[k]]

\* all_periods.extend(result.periods) .. all_notes.extend(result.extraction_notes)
extend(all, r) == [k \in AccLists |-> all[k] \o r[k]]

\* A mutant of dedupe_by_id: the record kept for an id is the last one seen.
dedupe_keep_last(items) ==
    LET F[i \in 0..Len(items)] ==
            IF i = 0 THEN <<>>
            ELSE IF \E j \in (i + 1)..Len(items) : items[j].id = items[i].id
                 THEN F[i - 1]
                 ELSE Append(F[i - 1], items[i])
    IN F[Len(items)]

dedupe_by_id(items) ==
    LET F[i \in 0..Len(items)] ==
            IF i = 0 THEN [seen |-> {}, result |-> <<>>]
            ELSE IF items[i].id \notin F[i - 1].seen
                 THEN [seen |-> F[i - 1].seen \cup {items[i].id},
                       result |-> Append(F[i - 1].result, items[i])]
                 ELSE F[i - 1]
    IN F[Len(items)].result

\* return ExtractionResult(source_file=file_path.name, periods=dedupe_by_id(..), ..)
process_file_result(all) ==
    [k \in AccLists \cup {"source_file"} |->
        IF k = "source_file" THEN FileName
        ELSE IF k = "extraction_notes" THEN all[k]
        ELSE dedupe_by_id(all[k])]

NoOutput == [k \in AccLists \cup {"source_file"} |-> IF k = "source_file" THEN "" ELSE <<>>]

InitAggregate ==
    /\ apc = "idle"
    /\ nSections = 0
    /\ heading = 0
    /\ chunksLeft = 0
    /\ nExtracted = 0
    /\ acc = EmptyAcc
    /\ output = NoOutput
    /\ sections = <<>>
    /\ invoked = <<>>

\* process_file(file_path): the file is read and cut into its sections.
ProcessFile ==
    /\ apc = "idle"
    /\ \E n \in 0..MaxSections : nSections' = n
    /\ heading' = 0
    /\ chunksLeft' = 0
    /\ nExtracted' = 0
    /\ acc' = EmptyAcc
    /\ output' = NoOutput
    /\ sections' = <<>>
    /\ invoked' = <<>>
    /\ apc' = "loop"
    /\ UNCHANGED notAggregate

\* The next section: skipped when shorter than 100 characters, cut into chunks
\* by chunk_text otherwise.
BeginSection ==
    /\ apc = "loop"
    /\ chunksLeft = 0
    /\ heading < nSections
    /\ \E len \in SectionLens, n \in 1..MaxResults :
        /\ ~skip_section(len) => nExtracted + n <= MaxResults
        /\ chunksLeft' = IF skip_section(len) THEN 0 ELSE n
        /\ sections' = Append(sections, [len |-> len, chunks |-> n])
    /\ heading' = heading + 1
    /\ UNCHANGED <<apc, nSections, nExtracted, acc, output, invoked>>
    /\ UNCHANGED notAggregate

\* One chunk of the section: extract_from_text, then the nine extends.
ExtractChunk ==
    /\ apc = "loop"
    /\ chunksLeft > 0
    /\ \E r \in ChunkResults(SectionLabel(heading)) :
        /\ acc' = extend(acc, r)
        /\ invoked' = Append(invoked,
               [heading |-> heading,
                chunk |-> sections[heading].chunks - chunksLeft + 1,
                label |-> SectionLabel(heading),
                failed |-> r.extraction_notes # <<>>])
    /\ chunksLeft' = chunksLeft - 1
    /\ nExtracted' = nExtracted + 1
    /\ UNCHANGED <<apc, nSections, heading, output, sections>>
    /\ UNCHANGED notAggregate

\* After the last section: deduplicate and return.
ReturnResult ==
    /\ apc = "loop"
    /\ chunksLeft = 0
    /\ heading = nSections
    /\ output' = process_file_result(acc)
    /\ apc' = "done"
    /\ UNCHANGED <<nSections, heading, chunksLeft, nExtracted, acc, sections, invoked>>
    /\ UNCHANGED notAggregate

\* The caller has the result.
ProcessFileDone ==
    /\ apc = "done"
    /\ apc' = "idle"
    /\ nSections' = 0
    /\ heading' = 0
    /\ chunksLeft' = 0
    /\ nExtracted' = 0
    /\ acc' = EmptyAcc
    /\ output' = NoOutput
    /\ sections' = <<>>
    /\ invoked' = <<>>
    /\ UNCHANGED notAggregate

NextAggregate ==
    ProcessFile \/ BeginSection \/ ExtractChunk \/ ReturnResult \/ ProcessFileDone

(***************************************************************************)
(* Claims on process_file.                                                 *)
(***************************************************************************)
\* The positions of a list whose record is the first of the list with its id.
FirstSeen(items) ==
    {i \in 1..Len(items) : \A j \in 1..(i - 1) : items[j].id # items[i].id}

FirstIndexOf(items, id) == CHOOSE n \in FirstSeen(items) : items[n].id = id

\* C9: for each of the eight kinds, the list process_file returns has exactly
\* one record per distinct id of the list accumulated for that kind, that
\* record is the first one accumulated with the id, and the records that
\* survive keep their relative order; the records of the other kinds play no
\* part.
C9_DedupeFirstSeen ==
    apc = "done" =>
        \A k \in EntityLists :
            /\ \A i, j \in 1..Len(output[k]) :
                   i # j => output[k][i].id # output[k][j].id
            /\ {output[k][i].id : i \in 1..Len(output[k])}
                   = {acc[k][i].id : i \in 1..Len(acc[k])}
            /\ \A i \in 1..Len(output[k]) :
                   output[k][i] = acc[k][FirstIndexOf(acc[k], output[k][i].id)]
            /\ \A i, j \in 1..Len(output[k]) :
                   i < j => FirstIndexOf(acc[k], output[k][i].id)
                                < FirstIndexOf(acc[k], output[k][j].id)

\* An id seen twice in one kind, with different records, and also in another
\* kind.
C9_Witness ==
    /\ apc = "done"
    /\ \E k \in EntityLists :
        /\ \E i, j \in 1..Len(acc[k]) :
               i < j /\ acc[k][i].id = acc[k][j].id /\ acc[k][i] # acc[k][j]
        /\ Len(output[k]) < Len(acc[k])
        /\ \E k2 \in EntityLists \ {k} :
               \E i \in 1..Len(output[k2]) : output[k2][i].id = acc[k][1].id

\* The calls due for the sections from the h-th on: one per chunk of each
\* section of at least 100 characters, in section order and chunk order.
RECURSIVE CallsDue(_, _)
CallsDue(secs, h) ==
    IF h > Len(secs) THEN <<>>
    ELSE (IF secs[h].len >= MinSectionLen
          THEN [c \in 1..secs[h].chunks |-> <<h, c>>]
          ELSE <<>>) \o CallsDue(secs, h + 1)

\* C24: process_file calls extract_from_text exactly once for each chunk of
\* each section of at least 100 characters, in section order and in chunk
\* order within a section, with the label made of the document name and the
\* section's heading, and never for a section of fewer than 100 characters.
C24_CallPerChunkInOrder ==
    /\ \A i \in 1..Len(invoked) :
           /\ sections[invoked[i].heading].len >= MinSectionLen
           /\ invoked[i].label = <<FileStem, " - ", invoked[i].heading>>
    /\ apc = "done" =>
           /\ Len(sections) = nSections
           /\ [i \in 1..Len(invoked) |-> <<invoked[i].heading, invoked[i].chunk>>]
                  = CallsDue(sections, 1)

\* A section that is skipped, then a section of two chunks.
C24_Witness ==
    /\ apc = "done"
    /\ Len(sections) = 2
    /\ sections[1].len = MinSectionLen - 1
    /\ sections[2].len = MinSectionLen /\ sections[2].chunks = 2
    /\ Len(invoked) = 2
    /\ invoked[2].heading = 2 /\ invoked[2].chunk = 2

\* The step is the extraction of a chunk that failed.
FailedChunk == Len(invoked') = Len(invoked) + 1 /\ invoked'[Len(invoked')].failed

\* C26: a chunk whose extraction fails adds no record to any of the eight
\* accumulated lists and exactly one note to the notes, leaves the records and
\* notes accumulated before unchanged, and the loop goes on with the next
\* chunk: at the end every chunk due was extracted, those after a failure too.
C26_FailureLeavesAccumulated ==
    /\ [][FailedChunk =>
            /\ \A k \in EntityLists : acc'[k] = acc[k]
            /\ Len(acc'.extraction_notes) = Len(acc.extraction_notes) + 1
            /\ SubSeq(acc'.extraction_notes, 1, Len(acc.extraction_notes))
                   = acc.extraction_notes
            /\ apc' = "loop"
            /\ chunksLeft' = chunksLeft - 1
            /\ heading' = heading]_vars
    /\ [](apc = "done" => Len(invoked) = Len(CallsDue(sections, 1)))

\* A failed chunk between two chunks that gave records, in two sections; the
\* records of both are returned and the note is kept.
C26_Witness ==
    /\ apc = "done"
    /\ Len(invoked) = 3
    /\ ~invoked[1].failed /\ invoked[2].failed /\ ~invoked[3].failed
    /\ invoked[3].heading > invoked[1].heading
    /\ Len(output.persons) = 2
    /\ Len(output.extraction_notes) = 1

(***************************************************************************)
(* TextParser.chunk_text.  A text is its length and the set of positions   *)
(* (from 0) that hold a newline; a chunk text[from:to] is <<from, to>>.    *)
(***************************************************************************)
MaxYields == 4          \* chunks taken from the generator

PipelineChunkSize == 3000   \* chunk_text(section_content, chunk_size=3000)
DefaultChunkSize == 2000    \* chunk_size: int = 2000
DefaultOverlap == 200       \* overlap: int = 200

ChunkParams ==
    {[chunk_size |-> PipelineChunkSize, overlap |-> DefaultOverlap],
     [chunk_size |-> DefaultChunkSize, overlap |-> DefaultOverlap]}

ChunkTextLens == {0, 150, 1900, 2900, 3000, 3001, 6500}

NewlinePositions == {0, 150, 1950, 2950, 3050}

Texts ==
    {[len |-> n, newlines |-> {p \in nl : p < n}] :
        n \in ChunkTextLens, nl \in SUBSET NewlinePositions}

\* text.rfind("\n", lo, hi): the last newline at a position in lo..hi-1, or -1
rfind(t, lo, hi) ==
    LET found == {p \in t.newlines : lo <= p /\ p < hi}
    IN IF found = {} THEN -1 ELSE SetMax(found)

\* One pass of the while loop: the chunk yielded and the next value of start.
loop_body(t, size, ov, st) ==
    LET end0 == st + size
        last_newline == rfind(t, st, end0)
        end == IF end0 < t.len /\ last_newline > st THEN last_newline ELSE end0
    IN [chunk |-> <<st, Min(end, t.len)>>,
        start |-> IF end - ov < 0 THEN 0 ELSE end - ov]

InitChunk ==
    /\ cpc = "idle"
    /\ text = [len |-> 0, newlines |-> {}]
    /\ chunk_size = 0
    /\ overlap = 0
    /\ start = 0
    /\ chunks = <<>>

\* chunk_text(text, chunk_size, overlap): start = 0
ChunkText ==
    /\ cpc = "idle"
    /\ \E t \in Texts : text' = t
    /\ \E prm \in ChunkParams : chunk_size' = prm.chunk_size /\ overlap' = prm.overlap
    /\ start' = 0
    /\ chunks' = <<>>
    /\ cpc' = "loop"
    /\ UNCHANGED notChunk

\* while start < text_length: .. yield text[start:end]; start = end - overlap
YieldChunk ==
    /\ cpc = "loop"
    /\ start < text.len
    /\ Len(chunks) < MaxYields
    /\ chunks' = Append(chunks, loop_body(text, chunk_size, overlap, start).chunk)
    /\ start' = loop_body(text, chunk_size, overlap, start).start
    /\ UNCHANGED <<cpc, text, chunk_size, overlap>>
    /\ UNCHANGED notChunk

\* The loop condition fails: the generator is exhausted.
ChunkStop ==
    /\ cpc = "loop"
    /\ start >= text.len
    /\ cpc' = "done"
    /\ UNCHANGED <<text, chunk_size, overlap, start, chunks>>
    /\ UNCHANGED notChunk

\* The caller has consumed the chunks.
ChunkTextDone ==
    /\ cpc = "done"
    /\ cpc' = "idle"
    /\ text' = [len |-> 0, newlines |-> {}]
    /\ chunk_size' = 0
    /\ overlap' = 0
    /\ start' = 0
    /\ chunks' = <<>>
    /\ UNCHANGED notChunk

NextChunk == ChunkText \/ YieldChunk \/ ChunkStop \/ ChunkTextDone

(***************************************************************************)
(* Claims on chunk_text.                                                   *)
(***************************************************************************)
\* C10: the chunks yielded are substrings in increasing position, each
\* starting after the start of its predecessor and not after its end, and
\* when the generator is exhausted every position of the text lies in a chunk.
C10_ChunksCoverText ==
    /\ \A i \in 1..(Len(chunks) - 1) :
           /\ chunks[i + 1][1] > chunks[i][1]
           /\ chunks[i + 1][1] <= chunks[i][2]
    /\ cpc = "done" =>
           \A p \in 0..(text.len - 1) :
               \E i \in 1..Len(chunks) : chunks[i][1] <= p /\ p < chunks[i][2]

\* C25: every chunk has at most chunk_size characters, and every chunk after
\* the first begins exactly overlap characters before the position at which
\* the preceding chunk ended.
C25_FixedOverlap ==
    /\ \A i \in 1..Len(chunks) : chunks[i][2] - chunks[i][1] <= chunk_size
    /\ \A i \in 1..(Len(chunks) - 1) : chunks[i + 1][1] = chunks[i][2] - overlap

\* The while loop, entered with start = st, comes back to a value of start it
\* has had: it never ends.  (start takes values in 0..len-1 inside the loop.)
RECURSIVE Loops(_, _, _, _, _)
Loops(t, size, ov, st, seen) ==
    IF st >= t.len THEN FALSE
    ELSE IF st \in seen THEN TRUE
    ELSE Loops(t, size, ov, loop_body(t, size, ov, st).start, seen \cup {st})

\* C28: for every text, with chunk_size 3000 or 2000 and overlap 200,
\* wherever the newlines fall, chunk_text yields finitely many chunks and
\* stops: the loop never comes back to a value of start it has had; and for
\* the empty text it yields no chunk.
C28_ChunkingTerminates ==
    /\ cpc = "loop" => ~Loops(text, chunk_size, overlap, start, {})
    /\ (cpc = "done" /\ text.len = 0) => chunks = <<>>

\* C29: every chunk after the first ends strictly later in the text than the
\* preceding chunk, and a text of at most chunk_size characters yields
\* exactly one chunk.
C29_NoRedundantChunk ==
    /\ \A i \in 1..(Len(chunks) - 1) : chunks[i + 1][2] > chunks[i][2]
    /\ (cpc = "done" /\ text.len > 0 /\ text.len <= chunk_size) => Len(chunks) = 1

(***************************************************************************)
(* main(), one store operation at a time.  Each session.run is a           *)
(* transaction of its own; an exception of the driver leaves main() and    *)
(* ends the process with the operations run so far in the store.           *)
(***************************************************************************)
MaxPlan == 2            \* json_files of a run

EmptyData == [k \in Kinds |-> <<>>]

PX == [id |-> Str("x1"), name |-> Str("Wang"), source_book |-> Str("C")]
WX == [id |-> Str("x1"), title |-> Str("Album"), source_book |-> Str("C")]
LitX == [id |-> Str("lit2"), target_ref |-> Str("x1"), source_book |-> Str("Tuhui"),
         source_book_ref |-> Str("C")]

\* The files of the output directory: a work with its painter and period, a
\* later version of the work, a critic and a literature record, a career, and
\* a document in which a person and a work carry the same identifier.
FileWork == [EmptyData EXCEPT !.persons = <<P1>>, !.works = <<W1a>>, !.periods = <<T1>>]
FileWorkB == [EmptyData EXCEPT !.works = <<W1b>>]
FileCritic == [EmptyData EXCEPT !.persons = <<P2>>, !.literature = <<LitA>>]
FileCareer ==
    [EmptyData EXCEPT !.locations = <<L1>>, !.cv_records = <<CV1, CV2>>,
                      !.social_relations = <<S1>>]
FileClash == [EmptyData EXCEPT !.persons = <<PX>>, !.works = <<WX>>, !.literature = <<LitX>>]

\* Two persons, the one recorded as "created" (raised, made) by the other.
SKin == [id |-> Str("s2"), source_id |-> Str("p1"), target_id |-> Str("p2"),
         relation_type |-> <<"c", "r", "e", "a", "t", "e", "d">>,
         formal_name |-> Str("y"), source_book |-> Str("D")]
FileKin == [EmptyData EXCEPT !.persons = <<P1, P2>>, !.social_relations = <<SKin>>]

PlanFiles == {FileWork, FileWorkB, FileCritic, FileCareer, FileClash, FileKin}

Plans == UNION {[1..n -> PlanFiles] : n \in 1..MaxPlan}

NodeLabels == {"Period", "Location", "Iconography", "Person", "Work", "Literature"}

\* A mutant of node_ops: import_literature is not called.
node_ops_no_literature(data) ==
    LET op(lr) == [q |-> lr[1], rec |-> lr[2]]
        recs == Tag("Period", GetList(data, "periods"))
                \o Tag("Location", GetList(data, "locations"))
                \o Tag("Iconography", GetList(data, "iconographies"))
                \o Tag("Person", GetList(data, "persons"))
                \o Tag("Work", GetList(data, "works"))
    IN [i \in 1..Len(recs) |-> op(recs[i])]

\* The MERGE queries of import_periods .. import_literature, in order.
node_ops(data) ==
    LET op(lr) == [q |-> lr[1], rec |-> lr[2]]
        recs == Tag("Period", GetList(data, "periods"))
                \o Tag("Location", GetList(data, "locations"))
                \o Tag("Iconography", GetList(data, "iconographies"))
                \o Tag("Person", GetList(data, "persons"))
                \o Tag("Work", GetList(data, "works"))
                \o Tag("Literature", GetList(data, "literature"))
    IN [i \in 1..Len(recs) |-> op(recs[i])]

When(cond, q, rec) == IF cond THEN <<[q |-> q, rec |-> rec]>> ELSE <<>>

\* The queries run for one record, in order.
cv_ops(cv) ==
    When(Truthy(Get(cv, "location_ref")), "worked_at", cv)
    \o When(Truthy(Get(cv, "time_ref")), "active_in", cv)

social_ops(rel) == When(TRUE, "social", rel)

work_ops(work) ==
    When(Truthy(Get(work, "creator_ref")), "created", work)
    \o When(Truthy(Get(work, "period_ref")), "dated_to", work)
    \o When(Truthy(Get(work, "icon_ref")), "depicts", work)

literature_ops(lit) ==
    IF ~Truthy(Get(lit, "target_ref")) THEN <<>>
    ELSE When(TRUE, "critiques", lit) \o When(TRUE, "records", lit)
         \o When(Truthy(Get(lit, "author_ref")), "wrote", lit)

\* The queries of import_relationships, import_work_relationships and
\* import_literature_relationships, in order.
relationship_ops(data) ==
    LET cv(ops, r) == ops \o cv_ops(r)
        so(ops, r) == ops \o social_ops(r)
        wk(ops, r) == ops \o work_ops(r)
        li(ops, r) == ops \o literature_ops(r)
    IN Fold(li, Fold(wk, Fold(so, Fold(cv, <<>>, GetList(data, "cv_records")),
                              GetList(data, "social_relations")),
                     GetList(data, "works")),
            GetList(data, "literature"))

\* The store operations of import_file, in order.
file_ops(data) == node_ops(data) \o relationship_ops(data)

\* session.run of one query
run_op(st, op) ==
    CASE op.q \in Queries -> RunQuery(op.q, st, op.rec)
      [] op.q = "Period" -> import_period(st, op.rec)
      [] op.q = "Location" -> import_location(st, op.rec)
      [] op.q = "Iconography" -> import_iconography(st, op.rec)
      [] op.q = "Person" -> import_person(st, op.rec)
      [] op.q = "Work" -> import_work(st, op.rec)
      [] OTHER -> import_literature_node(st, op.rec)

StageOf(op) == IF op.q \in Queries THEN "relationships" ELSE "nodes"

\* The stages of a run so far: a stage entered again is noted again.
NoteStage(h, stage) == IF h # <<>> /\ h[Len(h)] = stage THEN h ELSE Append(h, stage)

NoPrior == [crashed |-> FALSE, db |-> EmptyStore]

InitRun ==
    /\ rpc = "idle"
    /\ plan = <<>>
    /\ fileIdx = 0
    /\ opIdx = 0
    /\ db = EmptyStore
    /\ stages = <<>>
    /\ prior = NoPrior

\* main() is started; after a crash it is started again on the same files.
Main ==
    /\ rpc = "idle"
    /\ \E files \in Plans :
        /\ prior.crashed => files = plan
        /\ plan' = files
    /\ fileIdx' = 0
    /\ opIdx' = 0
    /\ stages' = <<>>
    /\ rpc' = "started"
    /\ UNCHANGED <<db, prior, notRun>>

\* importer.clear_database()
RunClear ==
    /\ rpc = "started"
    /\ db' = clear_database(db)
    /\ stages' = NoteStage(stages, "clear")
    /\ rpc' = "cleared"
    /\ UNCHANGED <<plan, fileIdx, opIdx, prior, notRun>>

\* importer.create_constraints()
RunConstraints ==
    /\ rpc = "cleared"
    /\ stages' = NoteStage(stages, "constraints")
    /\ fileIdx' = 1
    /\ opIdx' = 0
    /\ rpc' = "constrained"
    /\ UNCHANGED <<plan, db, prior, notRun>>

\* The next session.run of import_file(json_file); after the last one of a
\* file the for loop moves to the next file.
RunOp ==
    /\ rpc \in {"constrained", "importing"}
    /\ opIdx < Len(file_ops(plan[fileIdx]))
    /\ db' = run_op(db, file_ops(plan[fileIdx])[opIdx + 1])
    /\ stages' = NoteStage(stages, StageOf(file_ops(plan[fileIdx])[opIdx + 1]))
    /\ IF opIdx + 1 = Len(file_ops(plan[fileIdx])) /\ fileIdx < Len(plan)
       THEN fileIdx' = fileIdx + 1 /\ opIdx' = 0
       ELSE fileIdx' = fileIdx /\ opIdx' = opIdx + 1
    /\ rpc' = "importing"
    /\ UNCHANGED <<plan, prior, notRun>>

\* importer.get_stats()
RunStats ==
    /\ rpc = "importing"
    /\ fileIdx = Len(plan)
    /\ opIdx = Len(file_ops(plan[fileIdx]))
    /\ stages' = NoteStage(stages, "stats")
    /\ rpc' = "reported"
    /\ UNCHANGED <<plan, fileIdx, opIdx, db, prior, notRun>>

\* importer.close(): the run is complete.
RunClose ==
    /\ rpc = "reported"
    /\ rpc' = "idle"
    /\ prior' = NoPrior
    /\ UNCHANGED <<plan, fileIdx, opIdx, db, stages, notRun>>

\* An exception of the driver ends the run where it is.
Crash ==
    /\ rpc \in {"started", "cleared", "constrained", "importing"}
    /\ prior' = [crashed |-> TRUE, db |-> db]
    /\ rpc' = "idle"
    /\ UNCHANGED <<plan, fileIdx, opIdx, db, stages, notRun>>

NextRun == Main \/ RunClear \/ RunConstraints \/ RunOp \/ RunStats \/ RunClose \/ Crash

(***************************************************************************)
(* Claims on a run of main().                                              *)
(***************************************************************************)
\* The store a run leaves that imports the files, in order, into an empty
\* store and never fails.
CleanRun(files) == Fold(import_file, EmptyStore, files)

\* import_file(i) has returned.
FileDone(i) ==
    /\ rpc \in {"importing", "reported"}
    /\ \/ fileIdx > i
       \/ fileIdx = i /\ opIdx = Len(file_ops(plan[i]))

\* C11: a run of main() that completes leaves the nodes and edges of a run that
\* never failed on the same files in the same order, also when it is the
\* re-run after a run that was aborted after some of its store operations.
C11_RerunConverges ==
    rpc = "reported" => db = CleanRun(plan)

\* The re-run of a run that was aborted with part of its data in the store.
C11_Witness ==
    /\ rpc = "reported"
    /\ prior.crashed
    /\ prior.db # EmptyStore
    /\ prior.db # db
    /\ Len(plan) = 2

Rank(stage) ==
    CASE stage = "clear" -> 1
      [] stage = "constraints" -> 2
      [] stage = "nodes" -> 3
      [] stage = "relationships" -> 4
      [] OTHER -> 5

\* C16: in a run the clear precedes the constraint declaration, the
\* constraint declaration precedes every node upsert, every node upsert
\* precedes every relationship derivation, and statistics are reported only
\* after all relationship derivation: the stages of a run are in this order.
C16_StagesInOrder ==
    \A i, j \in 1..Len(stages) : i < j => Rank(stages[i]) < Rank(stages[j])

KindLabel(k) ==
    CASE k = "periods" -> "Period"
      [] k = "locations" -> "Location"
      [] k = "iconographies" -> "Iconography"
      [] k = "persons" -> "Person"
      [] k = "works" -> "Work"
      [] k = "literature" -> "Literature"
      [] OTHER -> "none"

NodeKinds == {"periods", "locations", "iconographies", "persons", "works", "literature"}

\* C19 as stated: after import_file every record of each of the eight kinds
\* of the file has a node keyed by its identifier.
C19_NodePerRecordOfEightKinds ==
    \A i \in 1..Len(plan) :
        FileDone(i) =>
            \A k \in Kinds :
                \A n \in 1..Len(plan[i][k]) :
                    \E x \in BagToSet(db.nodes) : x.id = plan[i][k][n].id

\* C19, amended: after import_file every record of the six kinds Period,
\* Location, Iconography, Person, Work and Literature of the file has a node
\* with the label of its kind and its identifier; a CV record or a social
\* relation has no node: the store holds no node with another label and none
\* keyed by the identifier of such a record.
C19_NodePerRecordOfSixKinds ==
    /\ \A x \in BagToSet(db.nodes) : x.label \in NodeLabels
    /\ \A i \in 1..Len(plan) :
        FileDone(i) =>
            /\ \A k \in NodeKinds :
                \A n \in 1..Len(plan[i][k]) :
                    HasNode(db.nodes, KindLabel(k), plan[i][k][n].id)
            /\ \A k \in Kinds \ NodeKinds :
                \A n \in 1..Len(plan[i][k]) :
                    \A x \in BagToSet(db.nodes) : x.id # plan[i][k][n].id

\* A file with CV records, a social relation and a literature record is done.
C19_Witness ==
    /\ Len(plan) = 2
    /\ FileDone(2)
    /\ plan[1] = FileCareer
    /\ plan[2] = FileCritic
    /\ HasNode(db.nodes, "Location", Str("l1"))
    /\ HasNode(db.nodes, "Literature", Str("lit1"))

\* C20: no Literature node has both a CRITIQUES edge and a RECORDS edge to
\* the same identifier: a target_ref gives at most one of the two.
C20_CritiquesOrRecords ==
    \A e1, e2 \in BagToSet(db.edges) :
        (e1.src = e2.src /\ e1.type = CRITIQUES /\ e2.type = RECORDS)
            => e1.dst[2] # e2.dst[2]

\* The node kinds a fixed relationship type is defined for.
FixedTypes ==
    {WORKED_AT, ACTIVE_IN, CREATED, DATED_TO, DEPICTS, WROTE, CRITIQUES, RECORDS}

Ends(type) ==
    CASE type = WORKED_AT -> <<"Person", "Location">>
      [] type = ACTIVE_IN -> <<"Person", "Period">>
      [] type = CREATED -> <<"Person", "Work">>
      [] type = DATED_TO -> <<"Work", "Period">>
      [] type = DEPICTS -> <<"Work", "Iconography">>
      [] type = WROTE -> <<"Person", "Literature">>
      [] type = CRITIQUES -> <<"Literature", "Person">>
      [] OTHER -> <<"Literature", "Work">>

\* C21: in every store reachable by imports each edge of a fixed type
\* connects the node kinds the type is defined for; so no edge between two
\* persons, which is what a social relation produces, has a fixed type.
C21_FixedTypesConnectTheirKinds ==
    \A e \in BagToSet(db.edges) :
        e.type \in FixedTypes => <<e.src[1], e.dst[1]>> = Ends(e.type)

NodeKeys(st) == {<<x.label, x.id>> : x \in BagToSet(st.nodes)}
EdgeKeys(st) == {<<e.src, e.type, e.dst>> : e \in BagToSet(st.edges)}

\* C27: no step of a run other than the clear removes a node or an edge: the
\* nodes and the edges of the store before the step are in the store after
\* it, and the store does not shrink; after the clear the store holds no
\* node and no edge.
C27_DestroyedOnlyByClear ==
    [][IF rpc = "started" /\ rpc' = "cleared"
       THEN db' = EmptyStore
       ELSE /\ NodeKeys(db) \subseteq NodeKeys(db')
            /\ EdgeKeys(db) \subseteq EdgeKeys(db')
            /\ BagCardinality(db.nodes) <= BagCardinality(db'.nodes)
            /\ BagCardinality(db.edges) <= BagCardinality(db'.edges)]_vars

\* The clear has emptied a store that held the nodes and edges an aborted
\* run left.
C27_Witness ==
    /\ rpc = "cleared"
    /\ prior.crashed
    /\ BagCardinality(prior.db.nodes) > 0
    /\ BagCardinality(prior.db.edges) > 0
    /\ db = EmptyStore

Reverse(seq) == [i \in 1..Len(seq) |-> seq[Len(seq) + 1 - i]]

\* C30: the nodes, with their properties, and the edges in the store after
\* main() has imported all files into the cleared store are those of
\* importing the same files in the opposite order.
C30_OrderIndependent ==
    rpc = "reported" => db = CleanRun(Reverse(plan))

(***************************************************************************)
(* BatchExtractor.process_directory and save_results.                      *)
(***************************************************************************)
MaxDocs == 3            \* Markdown files of the directory

\* file_path.name of the i-th file
DocName(i) == <<"book", i, ".md">>

\* What extract_from_text returns for a chunk that names at most one person.
PersonResults(lbl) ==
    {r \in ChunkResults(lbl) :
        r.works = <<>> /\ r.literature = <<>> /\ r.extraction_notes = <<>>}

\* What process_file returns for the i-th file: a document of one section and
\* two chunks.
DocumentResults(i) ==
    {[process_file_result(extend(extend(EmptyAcc, r1), r2)) EXCEPT !.source_file = DocName(i)] :
        r1, r2 \in PersonResults(<<DocName(i), " - ", 1>>)}

RECURSIVE SumOver(_, _, _)
\* sum(len(r.k) for r in results)
SumOver(rs, k, n) == IF n = 0 THEN 0 ELSE Len(rs[n][k]) + SumOver(rs, k, n - 1)

\* The totals of the combined document.
combined_totals(rs) ==
    [total_files |-> Len(rs),
     totals |-> [k \in EntityLists |-> SumOver(rs, k, Len(rs))]]

NoTotals == [total_files |-> 0, totals |-> [k \in EntityLists |-> 0]]

InitDirectory ==
    /\ dpc = "idle"
    /\ results = <<>>
    /\ combined = NoTotals

\* process_directory(): results = []
ProcessDirectory ==
    /\ dpc = "idle"
    /\ results' = <<>>
    /\ combined' = NoTotals
    /\ dpc' = "loop"
    /\ UNCHANGED notDirectory

\* result = self.process_file(file_path); results.append(result)
AppendResult ==
    /\ dpc = "loop"
    /\ Len(results) < MaxDocs
    /\ \E r \in DocumentResults(Len(results) + 1) : results' = Append(results, r)
    /\ UNCHANGED <<dpc, combined, notDirectory>>

\* No file is left: return results.
DirectoryReturn ==
    /\ dpc = "loop"
    /\ dpc' = "returned"
    /\ UNCHANGED <<results, combined, notDirectory>>

\* save_results(results)
SaveResults ==
    /\ dpc = "returned"
    /\ combined' = combined_totals(results)
    /\ dpc' = "saved"
    /\ UNCHANGED <<results, notDirectory>>

DirectoryDone ==
    /\ dpc = "saved"
    /\ dpc' = "idle"
    /\ results' = <<>>
    /\ combined' = NoTotals
    /\ UNCHANGED notDirectory

NextDirectory ==
    ProcessDirectory \/ AppendResult \/ DirectoryReturn \/ SaveResults \/ DirectoryDone

(***************************************************************************)
(* Claims on process_directory.                                            *)
(***************************************************************************)
IdsOf(items) == {items[i].id : i \in 1..Len(items)}

\* C13: in each per-document result no identifier occurs twice in the list of
\* one kind; after all files are processed no identifier occurs in records of
\* the same kind of two results, and the combined totals count each
\* identifier once.
C13_IdsUniqueAcrossResults ==
    dpc = "saved" =>
        \A k \in EntityLists :
            /\ \A d \in 1..Len(results) :
                   Cardinality(IdsOf(results[d][k])) = Len(results[d][k])
            /\ \A d, e \in 1..Len(results) :
                   d # e => IdsOf(results[d][k]) \cap IdsOf(results[e][k]) = {}
            /\ combined.totals[k]
                   = Cardinality(UNION {IdsOf(results[d][k]) : d \in 1..Len(results)})

(***************************************************************************)
(* The relationship type of a social relation (import_relationships).      *)
(***************************************************************************)
MaxLabel == 3           \* characters of a relation_type label

\* "shi" stands for one character without case (a Chinese character).
RelChars == {"a", "b", "A", " ", "/", "_", "shi"}

RelTypes == UNION {[1..n -> RelChars] : n \in 1..MaxLabel}

\* The social relations read from a file: with a relation_type, or without.
SocialRels ==
    {[id |-> Str("s1"), source_id |-> Str("p1"), target_id |-> Str("p2")]}
    \cup {[id |-> Str("s1"), source_id |-> Str("p1"), target_id |-> Str("p2"),
           relation_type |-> t] : t \in RelTypes}

InitNormalize ==
    /\ npc = "idle"
    /\ relation_type = <<>>
    /\ type_token = <<>>

\* rel_type = rel.get("relation_type", "RELATED_TO"); rel_label = ...
Normalize ==
    /\ npc = "idle"
    /\ \E rel \in SocialRels :
        /\ relation_type' = GetDefault(rel, "relation_type", RELATED_TO)
        /\ type_token' = rel_label(GetDefault(rel, "relation_type", RELATED_TO))
    /\ npc' = "done"
    /\ UNCHANGED notNormalize

NormalizeDone ==
    /\ npc = "done"
    /\ npc' = "idle"
    /\ relation_type' = <<>>
    /\ type_token' = <<>>
    /\ UNCHANGED notNormalize

NextNormalize == Normalize \/ NormalizeDone

IsLower(ch) == \E k \in 1..Len(LowerChars) : LowerChars[k] = ch

\* C14: the type token of a social relation holds no space, no slash and no
\* lowercase letter; it is the label, character by character, uppercased and
\* with each space and slash replaced by an underscore; and normalizing the
\* token again returns it unchanged.
C14_TypeTokenNormalized ==
    npc = "done" =>
        /\ \A i \in 1..Len(type_token) :
               type_token[i] \notin {" ", "/"} /\ ~IsLower(type_token[i])
        /\ Len(type_token) = Len(relation_type)
        /\ \A i \in 1..Len(type_token) :
               type_token[i] = IF relation_type[i] \in {" ", "/"} THEN "_"
                               ELSE upper(<<relation_type[i]>>)[1]
        /\ rel_label(type_token) = type_token

\* A label with a lowercase letter, a slash and a space.
C14_Witness ==
    /\ npc = "done"
    /\ relation_type = <<"a", "/", " ">>
    /\ type_token = <<"A", "_", "_">>

(***************************************************************************)
(* One document from process_file to import_file: a file with one heading, *)
(* a completion service that gives the same answer to every call, the      *)
(* result saved by save_results and imported into an empty store.          *)
(***************************************************************************)
RECURSIVE chunks_from(_, _, _, _, _)
\* The chunks of the while loop from start = st on, at most n of them.
chunks_from(t, size, ov, st, n) ==
    IF st >= t.len \/ n = 0 THEN <<>>
    ELSE <<loop_body(t, size, ov, st).chunk>>
         \o chunks_from(t, size, ov, loop_body(t, size, ov, st).start, n - 1)

\* list(chunk_text(text, chunk_size, overlap))
chunk_text(t, size, ov) == chunks_from(t, size, ov, 0, MaxYields)

BodyLens ==
    {MinSectionLen, 1900, PipelineChunkSize - DefaultOverlap,
     PipelineChunkSize - DefaultOverlap + 1, PipelineChunkSize}

Bodies ==
    {[len |-> n, newlines |-> {p \in nl : p < n}] :
        n \in BodyLens, nl \in SUBSET NewlinePositions}

\* A JSON object holding one person and one work of that person, alone or
\* with commentary around it.
Answers ==
    {<<"{", "P", "W", "}">>, <<"{", "W", "P", "}">>,
     <<"c", "{", "P", "W", "}">>, <<"{", "P", "W", "}", "c">>}

\* The loop of process_file over the chunks of one section, the service
\* answering resp to every call.
extract_chunks(n, resp, lbl) ==
    LET r == extract_body([raised |-> FALSE, error |-> "", content |-> resp], lbl).ret
        F[i \in 0..n] == IF i = 0 THEN EmptyAcc ELSE extend(F[i - 1], r)
    IN F[n]

\* A mutant of process_document: nothing is deduplicated.
process_document_no_dedupe(t, resp) ==
    [k \in AccLists \cup {"source_file"} |->
        IF k = "source_file" THEN FileName
        ELSE extract_chunks(Len(chunk_text(t, PipelineChunkSize, DefaultOverlap)),
                            resp, SectionLabel(1))[k]]

\* process_file for a file of one heading with the text t under it.
process_document(t, resp) ==
    IF t.len < MinSectionLen THEN process_file_result(EmptyAcc)
    ELSE process_file_result(
             extract_chunks(Len(chunk_text(t, PipelineChunkSize, DefaultOverlap)),
                            resp, SectionLabel(1)))

\* Person.model_dump() and Work.model_dump(): every field of the schema, the
\* ones not set with their defaults.
dump_person(x) ==
    x @@ [courtesy_name |-> None, pseudonym |-> None, other_names |-> List(""),
          choronym |-> None, birth_death |-> None, period_ref |-> None,
          authority_ids |-> Dict(""), biography |-> None]

dump_work(x) ==
    x @@ [creator_ref |-> None, period_ref |-> None, icon_ref |-> None, status |-> None,
          support |-> None, dimensions |-> None, repository |-> None,
          description |-> None]

\* json.dump(result.model_dump()) read back by json.load
model_dump(r) ==
    [k \in Kinds |->
        IF k = "persons" THEN [i \in 1..Len(r[k]) |-> dump_person(r[k][i])]
        ELSE IF k = "works" THEN [i \in 1..Len(r[k]) |-> dump_work(r[k][i])]
        ELSE r[k]]

InitPipeline ==
    /\ epc = "idle"
    /\ body = [len |-> 0, newlines |-> {}]
    /\ response = <<>>
    /\ n_calls = 0
    /\ aggregate = NoOutput
    /\ graph = EmptyStore

\* process_file(file_path)
ProcessDocument ==
    /\ epc = "idle"
    /\ \E t \in Bodies, resp \in Answers :
        /\ body' = t
        /\ response' = resp
        /\ n_calls' = Len(chunk_text(t, PipelineChunkSize, DefaultOverlap))
        /\ aggregate' = process_document(t, resp)
    /\ graph' = EmptyStore
    /\ epc' = "extracted"
    /\ UNCHANGED notPipeline

\* save_results, then import_file of the saved document into the empty store
ImportDocument ==
    /\ epc = "extracted"
    /\ graph' = import_file(EmptyStore, model_dump(aggregate))
    /\ epc' = "imported"
    /\ UNCHANGED <<body, response, n_calls, aggregate, notPipeline>>

PipelineDone ==
    /\ epc = "imported"
    /\ epc' = "idle"
    /\ body' = [len |-> 0, newlines |-> {}]
    /\ response' = <<>>
    /\ n_calls' = 0
    /\ aggregate' = NoOutput
    /\ graph' = EmptyStore
    /\ UNCHANGED notPipeline

NextPipeline == ProcessDocument \/ ImportDocument \/ PipelineDone

\* C15: for a document of one heading with a body of 100 to chunk_size
\* characters and a service that answers every call with one person p and one
\* work w created by p, process_file yields exactly one Person and one Work,
\* and the import into the empty store yields exactly 2 nodes and exactly 1
\* edge, a CREATED edge from p to w.
C15_OnePersonOneWorkOneEdge ==
    epc = "imported" =>
        /\ Len(aggregate.persons) = 1
        /\ Len(aggregate.works) = 1
        /\ \A k \in EntityLists \ {"persons", "works"} : aggregate[k] = <<>>
        /\ BagCardinality(graph.nodes) = 2
        /\ HasNode(graph.nodes, "Person", Str("p1"))
        /\ HasNode(graph.nodes, "Work", Str("w1"))
        /\ BagCardinality(graph.edges) = 1
        /\ \A e \in BagToSet(graph.edges) :
               /\ e.src = <<"Person", Str("p1")>>
               /\ e.type = CREATED
               /\ e.dst = <<"Work", Str("w1")>>

\* A body cut into two chunks: the person and the work are extracted twice.
C15_Witness ==
    /\ epc = "imported"
    /\ body.len = PipelineChunkSize
    /\ n_calls = 2
    /\ BagCardinality(graph.edges) = 1

(***************************************************************************)
(* TextParser.segment_by_headings.  A line is the sequence of its          *)
(* characters; "a" and "b" stand for any character that is neither "#"     *)
(* nor whitespace.                                                         *)
(***************************************************************************)
MaxLines == 3           \* lines of a document
MaxHashes == 6          \* #{1,6}

Whitespace == {" ", "\n"}

DocLines ==
    {<<"#", " ", "a">>, <<"#", "#", " ", "b", " ">>, <<"#", " ", " ">>, <<"#", "a">>,
     <<"a">>, <<"b", " ">>, <<>>}

Documents == UNION {[1..n -> DocLines] : n \in 1..MaxLines}

\* The number of characters c at the head of str
LeadingRun(str, c) ==
    SetMax({k \in 0..Len(str) : \A i \in 1..k : str[i] \in c})

\* str.strip()
strip(str) ==
    LET lead == LeadingRun(str, Whitespace)
        trail == LeadingRun([i \in 1..Len(str) |-> str[Len(str) + 1 - i]], Whitespace)
    IN IF lead = Len(str) THEN <<>> ELSE SubSeq(str, lead + 1, Len(str) - trail)

\* "\n".join(lines)
RECURSIVE join(_)
join(lns) ==
    IF lns = <<>> THEN <<>>
    ELSE IF Len(lns) = 1 THEN lns[1]
    ELSE lns[1] \o <<"\n">> \o join(Tail(lns))

\* heading_pattern.match(line) for ^(#{1,6})\s+(.+)$ : whether it matches and
\* group(2).  \s+ is greedy but leaves (.+) one character at least.
heading_match(line) ==
    LET h == LeadingRun(line, {"#"})
        rest == SubSeq(line, h + 1, Len(line))
        sp == LeadingRun(rest, Whitespace)
    IN IF h < 1 \/ h > MaxHashes \/ sp < 1 \/ Len(rest) < 2
       THEN [matched |-> FALSE, group2 |-> <<>>]
       ELSE [matched |-> TRUE,
             group2 |-> IF sp = Len(rest) THEN <<rest[Len(rest)]>>
                        ELSE SubSeq(rest, sp + 1, Len(rest))]

\* A mutant of section_to_yield: text without a heading is yielded too.
section_to_yield_any(h, c) == c # <<>>

\* if current_heading and current_content
section_to_yield(h, c) == h # <<>> /\ c # <<>>

\* yield current_heading, "\n".join(current_content).strip()
section(h, c, at) == [heading |-> h, body |-> strip(join(c)), at |-> at]

InitSegment ==
    /\ gpc = "idle"
    /\ document = <<>>
    /\ lineNo = 0
    /\ current_heading = <<>>
    /\ current_content = <<>>
    /\ headingAt = 0
    /\ yielded = <<>>

\* segment_by_headings(content): lines = content.split("\n")
SegmentByHeadings ==
    /\ gpc = "idle"
    /\ \E d \in Documents : document' = d
    /\ lineNo' = 0
    /\ current_heading' = <<>>
    /\ current_content' = <<>>
    /\ headingAt' = 0
    /\ yielded' = <<>>
    /\ gpc' = "loop"
    /\ UNCHANGED notSegment

\* for line in lines: one pass
NextLine ==
    /\ gpc = "loop"
    /\ lineNo < Len(document)
    /\ lineNo' = lineNo + 1
    /\ LET line == document[lineNo + 1]
           match == heading_match(line)
       IN IF match.matched
          THEN /\ yielded' = IF section_to_yield(current_heading, current_content)
                             THEN Append(yielded, section(current_heading,
                                                          current_content, headingAt))
                             ELSE yielded
               /\ current_heading' = strip(match.group2)
               /\ current_content' = <<>>
               /\ headingAt' = lineNo + 1
          ELSE /\ current_content' = Append(current_content, line)
               /\ UNCHANGED <<yielded, current_heading, headingAt>>
    /\ UNCHANGED <<gpc, document>>
    /\ UNCHANGED notSegment

\* After the loop: the last section.
LastSection ==
    /\ gpc = "loop"
    /\ lineNo = Len(document)
    /\ yielded' = IF section_to_yield(current_heading, current_content)
                  THEN Append(yielded, section(current_heading, current_content, headingAt))
                  ELSE yielded
    /\ gpc' = "done"
    /\ UNCHANGED <<document, lineNo, current_heading, current_content, headingAt>>
    /\ UNCHANGED notSegment

\* The caller has consumed the sections.
SegmentDone ==
    /\ gpc = "done"
    /\ gpc' = "idle"
    /\ document' = <<>>
    /\ lineNo' = 0
    /\ current_heading' = <<>>
    /\ current_content' = <<>>
    /\ headingAt' = 0
    /\ yielded' = <<>>
    /\ UNCHANGED notSegment

NextSegment == SegmentByHeadings \/ NextLine \/ LastSection \/ SegmentDone

(***************************************************************************)
(* Claims on segment_by_headings.                                          *)
(***************************************************************************)
HeadingLines == {n \in 1..Len(document) : heading_match(document[n]).matched}

\* The lines between the heading line at n and the next heading line.
LinesUnder(n) ==
    {m \in (n + 1)..Len(document) : \A k \in (n + 1)..m : k \notin HeadingLines}

\* C23: no pair yielded holds text from before the first heading line: the
\* body of a pair is the text of the lines between its heading line and the
\* next one, none of which stands before the first heading line; a document
\* without a heading line yields nothing; every pair carries
\* the non-empty text of a heading line, and the pairs are in document order.
C23_HeadinglessTextDropped ==
    /\ \A i \in 1..Len(yielded) :
           /\ yielded[i].at \in HeadingLines
           /\ yielded[i].heading # <<>>
           /\ yielded[i].heading = strip(heading_match(document[yielded[i].at]).group2)
           /\ yielded[i].body
                  = strip(join([k \in 1..Cardinality(LinesUnder(yielded[i].at))
                                   |-> document[yielded[i].at + k]]))
           /\ \A m \in 1..Len(document) :
                  (m < SetMin(HeadingLines \cup {Len(document) + 1})) =>
                      m \notin LinesUnder(yielded[i].at)
    /\ \A i \in 1..(Len(yielded) - 1) : yielded[i].at < yielded[i + 1].at
    /\ HeadingLines = {} => yielded = <<>>

\* Text, then a heading with text under it: one pair, without the text before.
C23_Witness ==
    /\ gpc = "done"
    /\ Len(document) = 3
    /\ document[1] = <<"b", " ">>
    /\ document[2] = <<"#", " ", "a">>
    /\ document[3] = <<"a">>
    /\ yielded = <<[heading |-> <<"a">>, body |-> <<"a">>, at |-> 2]>>

(***************************************************************************)
(* Neo4jImporter.create_constraints, one statement at a time, on a store   *)
(* that holds any of the constraints already.                              *)
(***************************************************************************)
MaxCalls == 2           \* calls of create_constraints on one store

\* constraints = [...]
ConstraintStatements ==
    <<"period_id_unique", "location_id_unique", "iconography_id_unique",
      "person_id_unique", "work_id_unique", "literature_id_unique">>

\* CREATE CONSTRAINT name FOR .. REQUIRE .. IS UNIQUE, without IF NOT EXISTS:
\* an error when the constraint exists.
create_constraint_strict(cs, name) == [schema |-> cs \cup {name}, exc |-> name \in cs]

\* CREATE CONSTRAINT name IF NOT EXISTS FOR .. REQUIRE .. IS UNIQUE
create_constraint(cs, name) == [schema |-> cs \cup {name}, exc |-> FALSE]

\* A mutant of try_statement: neither IF NOT EXISTS nor try .. except.
try_statement_bare(cs, name) ==
    LET r == create_constraint_strict(cs, name)
    IN [schema |-> IF r.exc THEN cs ELSE r.schema, printed |-> FALSE, raised |-> r.exc]

\* try: session.run(constraint)  except Exception as e: print(..)
try_statement(cs, name) ==
    LET r == create_constraint(cs, name)
    IN [schema |-> IF r.exc THEN cs ELSE r.schema, printed |-> r.exc, raised |-> FALSE]

InitConstraints ==
    /\ kpc = "idle"
    /\ schema = {}
    /\ stmt = 0
    /\ printed = <<>>
    /\ nCalls = 0

\* The importer is connected to a store that holds some of the constraints.
Connect ==
    /\ kpc = "idle"
    /\ nCalls = 0
    /\ \E cs \in SUBSET ConstraintNames : schema' = cs
    /\ stmt' = 0
    /\ printed' = <<>>
    /\ nCalls' = 1
    /\ kpc' = "loop"
    /\ UNCHANGED notConstraint

\* create_constraints() is called again on the same store.
CallAgain ==
    /\ kpc = "returned"
    /\ nCalls < MaxCalls
    /\ nCalls' = nCalls + 1
    /\ stmt' = 0
    /\ printed' = <<>>
    /\ kpc' = "loop"
    /\ UNCHANGED schema
    /\ UNCHANGED notConstraint

\* for constraint in constraints: one pass
RunStatement ==
    /\ kpc = "loop"
    /\ stmt < Len(ConstraintStatements)
    /\ LET r == try_statement(schema, ConstraintStatements[stmt + 1])
       IN /\ schema' = r.schema
          /\ printed' = IF r.printed THEN Append(printed, ConstraintStatements[stmt + 1])
                        ELSE printed
          /\ kpc' = IF r.raised THEN "raised" ELSE "loop"
    /\ stmt' = stmt + 1
    /\ UNCHANGED nCalls
    /\ UNCHANGED notConstraint

\* The loop is over: create_constraints returns.
ConstraintsReturn ==
    /\ kpc = "loop"
    /\ stmt = Len(ConstraintStatements)
    /\ kpc' = "returned"
    /\ UNCHANGED <<schema, stmt, printed, nCalls>>
    /\ UNCHANGED notConstraint

\* The importer is closed.
Disconnect ==
    /\ kpc \in {"returned", "raised"}
    /\ kpc' = "idle"
    /\ schema' = {}
    /\ stmt' = 0
    /\ printed' = <<>>
    /\ nCalls' = 0
    /\ UNCHANGED notConstraint

NextConstraints == Connect \/ CallAgain \/ RunStatement \/ ConstraintsReturn \/ Disconnect

\* C22: create_constraints, called any number of times on a store that holds
\* any subset of the constraints, never raises, and when it returns the
\* uniqueness constraints of the store are those that one call leaves on a
\* store without constraints.
C22_ConstraintsIdempotent ==
    /\ kpc # "raised"
    /\ kpc = "returned" =>
           /\ schema = create_constraints({})
           /\ schema = {ConstraintStatements[i] : i \in 1..Len(ConstraintStatements)}
           /\ printed = <<>>

\* The second call, made on a store that holds every constraint, has returned.
C22_Witness ==
    /\ kpc = "returned"
    /\ nCalls = 2
    /\ schema = ConstraintNames

(***************************************************************************)
(* Specifications.                                                         *)
(***************************************************************************)
Init ==
    /\ InitImport /\ InitExtract /\ InitAggregate /\ InitChunk
    /\ InitRun /\ InitDirectory /\ InitNormalize /\ InitPipeline
    /\ InitSegment /\ InitConstraints

SpecImport == Init /\ [][NextImport]_vars

SpecExtract == Init /\ [][NextExtract]_vars

SpecAggregate == Init /\ [][NextAggregate]_vars

SpecChunk == Init /\ [][NextChunk]_vars

SpecRun == Init /\ [][NextRun]_vars

SpecDirectory == Init /\ [][NextDirectory]_vars

SpecNormalize == Init /\ [][NextNormalize]_vars

SpecPipeline == Init /\ [][NextPipeline]_vars


SpecSegment == Init /\ [][NextSegment]_vars

SpecConstraints == Init /\ [][NextConstraints]_vars

=============================================================================
